---- MODULE Spec2Model ----
(***************************************************************************)
(* The digital-rights ledger of the repository: the monolithic ArtDRM      *)
(* contract (registration, licensing, sale settlement), the split          *)
(* deployment ArtworkRegistry + ArtworkLicensing + RoyaltyDistributor, and *)
(* the PaymentSplitter.                                                    *)
(* Every external call is one EVM transaction: it runs to completion or    *)
(* reverts, and a revert restores the storage and the balances the call    *)
(* started from.                                                           *)
(***************************************************************************)
EXTENDS Integers, Sequences, FiniteSets, TLC

VARIABLES
    scope,        \* the part of the ledger this run exercises
    now,          \* block.timestamp
    drm,          \* storage of the ArtDRM contract
    eth,          \* native balance of every account and of ArtDRM itself
    reg,          \* storage of ArtworkRegistry
    lic,          \* storage of ArtworkLicensing
    dist,         \* the payment token the RoyaltyDistributor moves
    splitter,     \* storage and balance of the PaymentSplitter
    last          \* the call just made: what was called and what came back

vars == <<scope, now, drm, eth, reg, lic, dist, splitter, last>>

(***************************************************************************)
(* Bounds of the model.                                                    *)
(***************************************************************************)
MaxTokens == 2          \* artworks registered per contract
MaxLicenses == 2        \* license records per artwork
MaxSlack == 1           \* seconds explored past the longest license term
GenesisTime == 1000     \* block.timestamp of the first transaction
InitialFunds == 1100    \* balance each funded account starts with
MaxPayees == 2          \* entries of the PaymentSplitter's payee list
MaxDeposits == 16       \* wei that enters the PaymentSplitter in a run

(***************************************************************************)
(* Program constants.                                                      *)
(***************************************************************************)
MAX_ROYALTY == 2000
PLATFORM_FEE == 500
\* 0.1 ether is 10^17 wei in the source.  The model checker's integers are
\* 32 bits wide, so amounts are scaled: only msg.value >= LICENSE_FEE reads it.
LICENSE_FEE == 100
DAY == 86400
BPS_DENOMINATOR == 10000
REGISTRY_MAX_ROYALTY == 20
REGISTRY_DENOMINATOR == 100
PRIMARY_FEE_DIVISOR == 20
\* The largest uint256 is 2^256 - 1 in the source; here it is the largest
\* integer the model checker has, and prices are scaled with it.
UINT256_MAX == 2147483647

(***************************************************************************)
(* Accounts.  alice and bob are externally owned; vault is a contract that *)
(* implements onERC721Received but has no payable receive function; escrow *)
(* is a contract with neither; hook is a contract with both, whose        *)
(* onERC721Received calls back into the contract that mints to it.         *)
(* deployer deployed the contracts and is their Ownable owner().           *)
(***************************************************************************)
NoAddr == "0x0"
THIS == "ArtDRM"
Deployer == "deployer"
Accounts == {"deployer", "alice", "bob", "vault", "escrow", "hook"}
AcceptsNft == {"deployer", "alice", "bob", "vault", "hook"}
AcceptsEth == {"deployer", "alice", "bob", "hook"}
\* Contracts whose onERC721Received calls back into the contract that is
\* minting to them.
Reenters == {"hook"}

LicenseTypes == {"PERSONAL", "COMMERCIAL", "EXCLUSIVE"}

Horizon == GenesisTime + 30 * DAY + MaxSlack

TokenIds == 0 .. (MaxTokens - 1)

(***************************************************************************)
(* Receipts.  A call returns the storage and balances it has written, the  *)
(* events it logged and its return value.  A failed require, a throwing    *)
(* transfer or a refused mint ends the call with ok = FALSE at the point   *)
(* it was reached; Tx is what the transaction then leaves behind: the EVM  *)
(* reverts every write and every value movement of the call.               *)
(***************************************************************************)
Ok(d, e, events, ret) ==
    [ok |-> TRUE, err |-> "", drm |-> d, eth |-> e, events |-> events, ret |-> ret]

Revert(d, e, err) ==
    [ok |-> FALSE, err |-> err, drm |-> d, eth |-> e, events |-> <<>>, ret |-> <<>>]

TxKeepWrites(d, e, r) == r

Tx(d, e, r) ==
    IF r.ok THEN r ELSE [r EXCEPT !.drm = d, !.eth = e, !.events = <<>>]

(***************************************************************************)
(* Native value transfer.                                                  *)
(***************************************************************************)
\* msg.value moves from the caller to the contract before the body runs.
Pay(e, from, to, amount) ==
    [e EXCEPT ![from] = @ - amount, ![to] = @ + amount]

\* payable(to).transfer(amount): throws when the contract holds less than
\* amount or the recipient cannot receive value.
CanTransfer(e, to, amount) ==
    /\ e[THIS] >= amount
    /\ to \in AcceptsEth

(***************************************************************************)
(* ERC721 ownership as ArtDRM uses it.                                     *)
(***************************************************************************)
Exists(owners, tokenId) == owners[tokenId] # NoAddr

(* require(ownerOf(tokenId) == msg.sender, ...): the caller is the token's  *)
(* owner at the time of the call.                                           *)
CallerIsOwnerOrAnyone(owners, tokenId, sender) == owners[tokenId] # NoAddr

CallerIsOwner(owners, tokenId, sender) == owners[tokenId] = sender

\* _safeMint(to, tokenId): mints, then asks a contract recipient to accept.
CanSafeMint(owners, to, tokenId) ==
    /\ to # NoAddr
    /\ ~Exists(owners, tokenId)
    /\ to \in AcceptsNft

(***************************************************************************)
(* ArtDRM.registerArtwork                                                  *)
(***************************************************************************)
RoyaltyAllowedLax(royaltyPercentage) == royaltyPercentage <= MAX_ROYALTY + 1

RoyaltyAllowed(royaltyPercentage) == royaltyPercentage <= MAX_ROYALTY

TakeTokenIdNoAdvance(d) == d

\* _currentTokenId++
TakeTokenId(d) == [d EXCEPT !.currentTokenId = @ + 1]

registerArtwork(d, e, sender, metadataURI, royaltyPercentage) ==
    IF ~RoyaltyAllowed(royaltyPercentage) THEN Revert(d, e, "Royalty exceeds maximum")
    ELSE IF ~(metadataURI # "") THEN Revert(d, e, "Metadata URI required")
    ELSE
      LET tokenId == d.currentTokenId
          d1 == TakeTokenId(d)
      IN IF ~CanSafeMint(d1.owners, sender, tokenId)
         THEN Revert(d1, e, "ERC721: transfer to non ERC721Receiver implementer")
         ELSE
           LET d2 == [d1 EXCEPT !.owners[tokenId] = sender,
                                !.tokenURIs[tokenId] = metadataURI]
               d3 == [d2 EXCEPT !.artworks[tokenId] =
                         [creator |-> sender,
                          metadataURI |-> metadataURI,
                          royaltyPercentage |-> royaltyPercentage,
                          isLicensed |-> FALSE]]
               d4 == [d3 EXCEPT !.creatorArtworks[sender] = Append(@, tokenId)]
           IN Ok(d4, e,
                 <<[name |-> "ArtworkRegistered", tokenId |-> tokenId,
                    creator |-> sender, metadataURI |-> metadataURI,
                    royaltyPercentage |-> royaltyPercentage]>>,
                 tokenId)

(***************************************************************************)
(* ArtDRM.grantLicense (payable)                                           *)
(***************************************************************************)
\* payable(msg.sender).transfer(msg.value): what the contract sends to the
\* artwork owner out of the fee it received.
OwnerFeeAfterPlatformCut(value) == value - ((value * PLATFORM_FEE) \div BPS_DENOMINATOR)

OwnerFee(value) == value

grantLicense(d, e0, sender, value, tokenId, licensee, durationDays, termsHash, licenseType, t) ==
    LET e == Pay(e0, sender, THIS, value)
    IN
    IF ~Exists(d.owners, tokenId) THEN Revert(d, e, "Artwork does not exist")
    ELSE IF ~CallerIsOwner(d.owners, tokenId, sender) THEN Revert(d, e, "Only owner can grant license")
    ELSE IF ~(licensee # NoAddr) THEN Revert(d, e, "Invalid licensee address")
    ELSE IF ~(value >= LICENSE_FEE) THEN Revert(d, e, "Insufficient license fee")
    ELSE IF ~(durationDays > 0) THEN Revert(d, e, "Duration must be positive")
    ELSE
      LET licenseId == d.licenseCounter
          d1 == [d EXCEPT !.licenseCounter = @ + 1]
          startDate == t
          endDate == startDate + (durationDays * DAY)
          newLicense == [tokenId |-> tokenId,
                         licensee |-> licensee,
                         startDate |-> startDate,
                         endDate |-> endDate,
                         termsHash |-> termsHash,
                         licenseType |-> licenseType,
                         isActive |-> TRUE,
                         feePaid |-> value]
          d2 == [d1 EXCEPT !.tokenLicenses[tokenId] = Append(@, newLicense)]
          d3 == [d2 EXCEPT !.artworks[tokenId].isLicensed = TRUE]
      IN IF ~CanTransfer(e, sender, OwnerFee(value)) THEN Revert(d3, e, "transfer failed")
         ELSE Ok(d3, Pay(e, THIS, sender, OwnerFee(value)),
                 <<[name |-> "LicenseGranted", licenseId |-> licenseId,
                    tokenId |-> tokenId, licensee |-> licensee,
                    licenseType |-> licenseType, duration |-> durationDays,
                    feePaid |-> value]>>,
                 licenseId)

(***************************************************************************)
(* ArtDRM.revokeLicense                                                    *)
(***************************************************************************)
\* The first loop: the lowest index whose record is the licensee's and
\* active, or 0 when the loop ends without a match (indices are 1-based).
FirstActiveOf(licenses, licensee) ==
    LET hits == {i \in 1 .. Len(licenses) :
                    licenses[i].licensee = licensee /\ licenses[i].isActive}
    IN IF hits = {} THEN 0 ELSE CHOOSE i \in hits : \A j \in hits : i <= j

\* The second loop: does any record remain active and unexpired.
HasActiveLicense(licenses, t) ==
    \E i \in 1 .. Len(licenses) : licenses[i].isActive /\ t <= licenses[i].endDate

revokeLicenseRemoving(d, e, sender, tokenId, licensee, t) ==
    IF ~Exists(d.owners, tokenId) THEN Revert(d, e, "Artwork does not exist")
    ELSE IF ~(d.owners[tokenId] = sender) THEN Revert(d, e, "Only owner can revoke license")
    ELSE
      LET licenses == d.tokenLicenses[tokenId]
          i == FirstActiveOf(licenses, licensee)
      IN IF i = 0 THEN Revert(d, e, "Active license not found")
         ELSE
           LET kept == SubSeq(licenses, 1, i - 1) \o SubSeq(licenses, i + 1, Len(licenses))
               d1 == [d EXCEPT !.tokenLicenses[tokenId] = kept]
               d2 == [d1 EXCEPT !.artworks[tokenId].isLicensed = HasActiveLicense(kept, t)]
           IN Ok(d2, e,
                 <<[name |-> "LicenseRevoked", licenseId |-> i - 1,
                    tokenId |-> tokenId, licensee |-> licensee]>>,
                 <<>>)

revokeLicense(d, e, sender, tokenId, licensee, t) ==
    IF ~Exists(d.owners, tokenId) THEN Revert(d, e, "Artwork does not exist")
    ELSE IF ~CallerIsOwner(d.owners, tokenId, sender) THEN Revert(d, e, "Only owner can revoke license")
    ELSE
      LET i == FirstActiveOf(d.tokenLicenses[tokenId], licensee)
          found == i # 0
      IN IF ~found THEN Revert(d, e, "Active license not found")
         ELSE
           LET d1 == [d EXCEPT !.tokenLicenses[tokenId][i].isActive = FALSE]
               d2 == [d1 EXCEPT !.artworks[tokenId].isLicensed =
                          HasActiveLicense(d1.tokenLicenses[tokenId], t)]
           IN Ok(d2, e,
                 <<[name |-> "LicenseRevoked", licenseId |-> i - 1,
                    tokenId |-> tokenId, licensee |-> licensee]>>,
                 <<>>)

(***************************************************************************)
(* Re-entrancy.  grantLicense and handleSale carry the nonReentrant        *)
(* modifier; registerArtwork and revokeLicense do not.  _safeMint calls    *)
(* onERC721Received of a contract recipient after the token is minted and  *)
(* before registerArtwork stores the artwork, with all the remaining gas,  *)
(* so the recipient can call back into the contract from there.            *)
(***************************************************************************)
Guarded == {"grantLicense", "handleSale"}

\* The nonReentrant modifier of a call to fn made while a call to outer is
\* executing: it rejects when outer holds the lock.
ReentrantCallRejected(outer, fn) == outer \in Guarded /\ fn \in Guarded

\* A call the recipient makes from its callback, about the token tokenId.
\* A call that reverts is undone and the callback carries on.
Reenter(d, e, outer, sender, call, tokenId, t) ==
    IF ReentrantCallRejected(outer, call.fn)
    THEN Tx(d, e, Revert(d, e, "ReentrancyGuard: reentrant call"))
    ELSE IF call.fn = "grantLicense"
    THEN Tx(d, e, grantLicense(d, e, sender, call.fee, tokenId, call.licensee,
                               call.days, "QmTerms", call.type, t))
    ELSE IF call.fn = "revokeLicense"
    THEN Tx(d, e, revokeLicense(d, e, sender, tokenId, call.licensee, t))
    ELSE Tx(d, e, registerArtwork(d, e, sender, "ipfs://nested", MAX_ROYALTY))

\* registerArtwork called by a contract whose onERC721Received makes the
\* call inner and then accepts the token.
registerArtworkReentered(d, e, sender, metadataURI, royaltyPercentage, inner, t) ==
    IF ~RoyaltyAllowed(royaltyPercentage) THEN Revert(d, e, "Royalty exceeds maximum")
    ELSE IF ~(metadataURI # "") THEN Revert(d, e, "Metadata URI required")
    ELSE
      LET tokenId == d.currentTokenId
          d1 == TakeTokenId(d)
      IN IF ~CanSafeMint(d1.owners, sender, tokenId)
         THEN Revert(d1, e, "ERC721: transfer to non ERC721Receiver implementer")
         ELSE
           LET minted == [d1 EXCEPT !.owners[tokenId] = sender]
               n == Reenter(minted, e, "registerArtwork", sender, inner, tokenId, t)
               d2 == [n.drm EXCEPT !.tokenURIs[tokenId] = metadataURI]
               d3 == [d2 EXCEPT !.artworks[tokenId] =
                         [creator |-> sender,
                          metadataURI |-> metadataURI,
                          royaltyPercentage |-> royaltyPercentage,
                          isLicensed |-> FALSE]]
               d4 == [d3 EXCEPT !.creatorArtworks[sender] = Append(@, tokenId)]
           IN Ok(d4, n.eth,
                 n.events \o
                 <<[name |-> "ArtworkRegistered", tokenId |-> tokenId,
                    creator |-> sender, metadataURI |-> metadataURI,
                    royaltyPercentage |-> royaltyPercentage]>>,
                 tokenId)

(***************************************************************************)
(* ArtDRM.handleSale (payable)                                             *)
(***************************************************************************)
IsPrimarySaleInverted(currentOwner, creator) == currentOwner # creator

IsPrimarySale(currentOwner, creator) == currentOwner = creator

CreatorAmountFloored(salePrice, platformFee) ==
    (salePrice * (BPS_DENOMINATOR - PLATFORM_FEE)) \div BPS_DENOMINATOR

CreatorAmount(salePrice, platformFee) == salePrice - platformFee

handleSale(d, e0, sender, value, tokenId, salePrice) ==
    LET e == Pay(e0, sender, THIS, value)
    IN
    IF ~Exists(d.owners, tokenId) THEN Revert(d, e, "Artwork does not exist")
    ELSE IF ~(value >= salePrice) THEN Revert(d, e, "Insufficient payment")
    ELSE
      LET currentOwner == d.owners[tokenId]
          creator == d.artworks[tokenId].creator
      IN IF IsPrimarySale(currentOwner, creator)
         THEN
           LET platformFee == (salePrice * PLATFORM_FEE) \div BPS_DENOMINATOR
               creatorAmount == CreatorAmount(salePrice, platformFee)
           IN IF ~CanTransfer(e, creator, creatorAmount) THEN Revert(d, e, "transfer failed")
              ELSE LET e1 == Pay(e, THIS, creator, creatorAmount)
                   IN IF ~CanTransfer(e1, Deployer, platformFee)
                      THEN Revert(d, e1, "transfer failed")
                      ELSE Ok(d, Pay(e1, THIS, Deployer, platformFee), <<>>, <<>>)
         ELSE
           LET royaltyAmount ==
                   (salePrice * d.artworks[tokenId].royaltyPercentage) \div BPS_DENOMINATOR
               sellerAmount == salePrice - royaltyAmount
           IN IF ~CanTransfer(e, creator, royaltyAmount) THEN Revert(d, e, "transfer failed")
              ELSE LET e1 == Pay(e, THIS, creator, royaltyAmount)
                   IN IF ~CanTransfer(e1, currentOwner, sellerAmount)
                      THEN Revert(d, e1, "transfer failed")
                      ELSE Ok(d, Pay(e1, THIS, currentOwner, sellerAmount),
                              <<[name |-> "RoyaltyPaid", tokenId |-> tokenId,
                                 creator |-> creator, amount |-> royaltyAmount]>>,
                              <<>>)

(***************************************************************************)
(* ArtDRM.withdrawBalance (onlyOwner)                                      *)
(***************************************************************************)
withdrawBalance(d, e, sender) ==
    IF ~(sender = Deployer) THEN Revert(d, e, "Ownable: caller is not the owner")
    ELSE LET balance == e[THIS]
         IN IF ~(balance > 0) THEN Revert(d, e, "No balance to withdraw")
            ELSE IF ~CanTransfer(e, Deployer, balance) THEN Revert(d, e, "transfer failed")
            ELSE Ok(d, Pay(e, THIS, Deployer, balance), <<>>, <<>>)

(***************************************************************************)
(* The inherited ERC721 transferFrom, the ownership transfer the ledger    *)
(* observes.  Approvals are not modelled: only the owner moves a token.    *)
(***************************************************************************)
transferFromClearing(d, e, sender, from, to, tokenId) ==
    IF ~Exists(d.owners, tokenId) THEN Revert(d, e, "ERC721: invalid token ID")
    ELSE IF ~(d.owners[tokenId] = sender)
         THEN Revert(d, e, "ERC721: caller is not token owner or approved")
    ELSE IF ~(d.owners[tokenId] = from)
         THEN Revert(d, e, "ERC721: transfer from incorrect owner")
    ELSE IF ~(to # NoAddr) THEN Revert(d, e, "ERC721: transfer to the zero address")
    ELSE Ok([d EXCEPT !.owners[tokenId] = to,
                      !.tokenLicenses[tokenId] =
                          [i \in 1 .. Len(@) |-> [@[i] EXCEPT !.isActive = FALSE]]],
            e,
            <<[name |-> "Transfer", from |-> from, to |-> to, tokenId |-> tokenId]>>,
            <<>>)

transferFrom(d, e, sender, from, to, tokenId) ==
    IF ~Exists(d.owners, tokenId) THEN Revert(d, e, "ERC721: invalid token ID")
    ELSE IF ~(d.owners[tokenId] = sender)
         THEN Revert(d, e, "ERC721: caller is not token owner or approved")
    ELSE IF ~(d.owners[tokenId] = from)
         THEN Revert(d, e, "ERC721: transfer from incorrect owner")
    ELSE IF ~(to # NoAddr) THEN Revert(d, e, "ERC721: transfer to the zero address")
    ELSE Ok([d EXCEPT !.owners[tokenId] = to], e,
            <<[name |-> "Transfer", from |-> from, to |-> to, tokenId |-> tokenId]>>,
            <<>>)

(***************************************************************************)
(* ArtDRM view functions                                                   *)
(***************************************************************************)
getArtworkInfoRefreshing(d, e, tokenId) ==
    IF ~Exists(d.owners, tokenId) THEN Revert(d, e, "Artwork does not exist")
    ELSE LET d1 == [d EXCEPT !.artworks[tokenId].isLicensed =
                        HasActiveLicense(d.tokenLicenses[tokenId], now)]
             artwork == d1.artworks[tokenId]
         IN Ok(d1, e, <<>>,
               <<artwork.creator, artwork.metadataURI,
                 artwork.royaltyPercentage, artwork.isLicensed>>)

getArtworkInfo(d, e, tokenId) ==
    IF ~Exists(d.owners, tokenId) THEN Revert(d, e, "Artwork does not exist")
    ELSE LET artwork == d.artworks[tokenId]
         IN Ok(d, e, <<>>,
               <<artwork.creator, artwork.metadataURI,
                 artwork.royaltyPercentage, artwork.isLicensed>>)

IsUsableUnexpiring(license, t) == license.isActive

IsUsable(license, t) == license.isActive /\ t <= license.endDate

getActiveLicenses(d, e, tokenId, t) ==
    IF ~Exists(d.owners, tokenId) THEN Revert(d, e, "Artwork does not exist")
    ELSE LET allLicenses == d.tokenLicenses[tokenId]
             Usable(l) == IsUsable(l, t)
         IN Ok(d, e, <<>>, SelectSeq(allLicenses, Usable))

NotExpiredStrict(t, endDate) == t < endDate

\* block.timestamp <= licenses[i].endDate
NotExpired(t, endDate) == t <= endDate

isLicenseValid(d, e, tokenId, licensee, t) ==
    IF ~Exists(d.owners, tokenId) THEN Revert(d, e, "Artwork does not exist")
    ELSE LET licenses == d.tokenLicenses[tokenId]
         IN Ok(d, e, <<>>,
               \E i \in 1 .. Len(licenses) :
                   /\ licenses[i].licensee = licensee
                   /\ licenses[i].isActive
                   /\ NotExpired(t, licenses[i].endDate))

\* Checked arithmetic: a * b panics when it does not fit in a uint256.
MulOverflows(a, b) == b > 0 /\ a > UINT256_MAX \div b

RoyaltyOfRoundedUp(salePrice, royaltyPercentage) ==
    (salePrice * royaltyPercentage + BPS_DENOMINATOR - 1) \div BPS_DENOMINATOR

\* (salePrice * royaltyPercentage) / 10000
RoyaltyOf(salePrice, royaltyPercentage) ==
    (salePrice * royaltyPercentage) \div BPS_DENOMINATOR

royaltyInfo(d, e, tokenId, salePrice) ==
    IF ~Exists(d.owners, tokenId) THEN Revert(d, e, "Artwork does not exist")
    ELSE LET creator == d.artworks[tokenId].creator
             royaltyPercentage == d.artworks[tokenId].royaltyPercentage
         IN IF MulOverflows(salePrice, royaltyPercentage)
            THEN Revert(d, e, "Panic(0x11): arithmetic overflow")
            ELSE Ok(d, e, <<>>, <<creator, RoyaltyOf(salePrice, royaltyPercentage)>>)

(***************************************************************************)
(* The split deployment.  A receipt carries the storage of the registry,   *)
(* of the licensing contract and of the payment token.                     *)
(***************************************************************************)
LICENSING == "ArtworkLicensing"
DISTRIBUTOR == "RoyaltyDistributor"
Marketplace == Deployer

OkS(rg, lc, tk, events, ret) ==
    [ok |-> TRUE, err |-> "", reg |-> rg, lic |-> lc, dist |-> tk,
     events |-> events, ret |-> ret]

RevertS(rg, lc, tk, err) ==
    [ok |-> FALSE, err |-> err, reg |-> rg, lic |-> lc, dist |-> tk,
     events |-> <<>>, ret |-> <<>>]

TxS(rg, lc, tk, r) ==
    IF r.ok THEN r ELSE [r EXCEPT !.reg = rg, !.lic = lc, !.dist = tk, !.events = <<>>]

(***************************************************************************)
(* ArtworkRegistry                                                         *)
(***************************************************************************)
\* _safeMint(owner, tokenId) refuses an id that has an owner.
AlreadyMintedUnchecked(owners, tokenId) == FALSE

AlreadyMinted(owners, tokenId) == Exists(owners, tokenId)

RegistryRegisterArtwork(rg, lc, tk, sender, owner, metadataURI, royaltyPercentage) ==
    IF ~(royaltyPercentage <= REGISTRY_MAX_ROYALTY)
    THEN RevertS(rg, lc, tk, "Royalty cannot exceed 20%")
    ELSE
      LET tokenId == rg.tokenCount
      IN IF owner = NoAddr THEN RevertS(rg, lc, tk, "ERC721: mint to the zero address")
         ELSE IF AlreadyMinted(rg.owners, tokenId)
              THEN RevertS(rg, lc, tk, "ERC721: token already minted")
         ELSE IF owner \notin AcceptsNft
              THEN RevertS([rg EXCEPT !.owners[tokenId] = owner], lc, tk,
                           "ERC721: transfer to non ERC721Receiver implementer")
         ELSE
           LET r1 == [rg EXCEPT !.owners[tokenId] = owner,
                                !.tokenURIs[tokenId] = metadataURI]
               r2 == [r1 EXCEPT !.artworks[tokenId] =
                         [creator |-> sender,
                          metadataURI |-> metadataURI,
                          royaltyPercentage |-> royaltyPercentage,
                          isLicensed |-> FALSE]]
               r3 == [r2 EXCEPT !.tokenCount = @ + 1]
           IN OkS(r3, lc, tk,
                  <<[name |-> "ArtworkRegistered", tokenId |-> tokenId,
                     creator |-> sender, metadataURI |-> metadataURI,
                     royaltyPercentage |-> royaltyPercentage]>>,
                  tokenId)

\* registerArtwork minting to a contract whose onERC721Received registers
\* another artwork for itself before it accepts the token.  tokenCount is
\* incremented only at the end of registerArtwork, so the nested call reads
\* the id the outer call has just minted.  A nested call that reverts is
\* undone; the callback then either passes the failure on, which reverts the
\* outer call as well, or catches it and accepts the token.
RegistryRegisterArtworkReentered(rg, lc, tk, sender, owner, metadataURI, royaltyPercentage, catches) ==
    IF ~(royaltyPercentage <= REGISTRY_MAX_ROYALTY)
    THEN RevertS(rg, lc, tk, "Royalty cannot exceed 20%")
    ELSE
      LET tokenId == rg.tokenCount
      IN IF owner = NoAddr THEN RevertS(rg, lc, tk, "ERC721: mint to the zero address")
         ELSE IF AlreadyMinted(rg.owners, tokenId)
              THEN RevertS(rg, lc, tk, "ERC721: token already minted")
         ELSE IF owner \notin AcceptsNft
              THEN RevertS([rg EXCEPT !.owners[tokenId] = owner], lc, tk,
                           "ERC721: transfer to non ERC721Receiver implementer")
         ELSE
           LET minted == [rg EXCEPT !.owners[tokenId] = owner]
               n == TxS(minted, lc, tk,
                        RegistryRegisterArtwork(minted, lc, tk, owner, owner, "ipfs://nested",
                                                REGISTRY_MAX_ROYALTY))
           IN IF ~n.ok /\ ~catches THEN RevertS(minted, lc, tk, n.err)
              ELSE
                LET r1 == [n.reg EXCEPT !.tokenURIs[tokenId] = metadataURI]
                    r2 == [r1 EXCEPT !.artworks[tokenId] =
                              [creator |-> sender,
                               metadataURI |-> metadataURI,
                               royaltyPercentage |-> royaltyPercentage,
                               isLicensed |-> FALSE]]
                    r3 == [r2 EXCEPT !.tokenCount = @ + 1]
                IN OkS(r3, lc, tk,
                       n.events \o
                       <<[name |-> "ArtworkRegistered", tokenId |-> tokenId,
                          creator |-> sender, metadataURI |-> metadataURI,
                          royaltyPercentage |-> royaltyPercentage]>>,
                       tokenId)

setLicensingContract(rg, lc, tk, sender, licensingContract) ==
    IF ~(sender = Deployer) THEN RevertS(rg, lc, tk, "Ownable: caller is not the owner")
    ELSE OkS([rg EXCEPT !.licensingContract = licensingContract], lc, tk, <<>>, <<>>)

updateLicenseStatusResetting(rg, lc, tk, sender, tokenId, status) ==
    IF ~(sender = rg.licensingContract)
    THEN RevertS(rg, lc, tk, "Caller is not licensing contract")
    ELSE IF ~Exists(rg.owners, tokenId) THEN RevertS(rg, lc, tk, "Nonexistent token")
    ELSE OkS([rg EXCEPT !.artworks[tokenId] =
                  [creator |-> rg.owners[tokenId], metadataURI |-> @.metadataURI,
                   royaltyPercentage |-> @.royaltyPercentage, isLicensed |-> status]],
             lc, tk,
             <<[name |-> "LicenseStatusChanged", tokenId |-> tokenId,
                isLicensed |-> status]>>,
             <<>>)

updateLicenseStatus(rg, lc, tk, sender, tokenId, status) ==
    IF ~(sender = rg.licensingContract)
    THEN RevertS(rg, lc, tk, "Caller is not licensing contract")
    ELSE IF ~Exists(rg.owners, tokenId) THEN RevertS(rg, lc, tk, "Nonexistent token")
    ELSE OkS([rg EXCEPT !.artworks[tokenId].isLicensed = status], lc, tk,
             <<[name |-> "LicenseStatusChanged", tokenId |-> tokenId,
                isLicensed |-> status]>>,
             <<>>)

RegistryTransferFrom(rg, lc, tk, sender, from, to, tokenId) ==
    IF ~Exists(rg.owners, tokenId) THEN RevertS(rg, lc, tk, "ERC721: invalid token ID")
    ELSE IF ~(rg.owners[tokenId] = sender)
         THEN RevertS(rg, lc, tk, "ERC721: caller is not token owner or approved")
    ELSE IF ~(rg.owners[tokenId] = from)
         THEN RevertS(rg, lc, tk, "ERC721: transfer from incorrect owner")
    ELSE IF ~(to # NoAddr) THEN RevertS(rg, lc, tk, "ERC721: transfer to the zero address")
    ELSE OkS([rg EXCEPT !.owners[tokenId] = to], lc, tk,
             <<[name |-> "Transfer", from |-> from, to |-> to, tokenId |-> tokenId]>>,
             <<>>)

RegistryGetArtworkInfo(rg, lc, tk, tokenId) ==
    IF ~Exists(rg.owners, tokenId) THEN RevertS(rg, lc, tk, "Nonexistent token")
    ELSE LET artwork == rg.artworks[tokenId]
         IN OkS(rg, lc, tk, <<>>,
                <<artwork.creator, artwork.metadataURI,
                  artwork.royaltyPercentage, artwork.isLicensed>>)

RegistryRoyaltyInfo(rg, lc, tk, tokenId, salePrice) ==
    IF ~Exists(rg.owners, tokenId) THEN RevertS(rg, lc, tk, "Nonexistent token")
    ELSE LET artwork == rg.artworks[tokenId]
         IN IF MulOverflows(salePrice, artwork.royaltyPercentage)
            THEN RevertS(rg, lc, tk, "Panic(0x11): arithmetic overflow")
            ELSE OkS(rg, lc, tk, <<>>,
                     <<artwork.creator,
                       (salePrice * artwork.royaltyPercentage) \div REGISTRY_DENOMINATOR>>)

(***************************************************************************)
(* ArtworkLicensing.  Its functions are not payable: a call that carries   *)
(* value reverts before the body runs.                                     *)
(***************************************************************************)
LicensingGrantLicense(rg, lc, tk, sender, value, tokenId, licensee, durationInDays, termsHash, licenseType, t) ==
    IF value > 0 THEN RevertS(rg, lc, tk, "non-payable function")
    ELSE IF ~Exists(rg.owners, tokenId) THEN RevertS(rg, lc, tk, "ERC721: invalid token ID")
    ELSE IF ~CallerIsOwner(rg.owners, tokenId, sender) THEN RevertS(rg, lc, tk, "Not owner")
    ELSE IF ~(durationInDays > 0) THEN RevertS(rg, lc, tk, "Invalid duration")
    ELSE
      LET startDate == t
          endDate == startDate + (durationInDays * DAY)
          newLicense == [licensee |-> licensee,
                         tokenId |-> tokenId,
                         startDate |-> startDate,
                         endDate |-> endDate,
                         termsHash |-> termsHash,
                         licenseType |-> licenseType,
                         isActive |-> TRUE]
          l1 == [lc EXCEPT !.tokenLicenses[tokenId] = Append(@, newLicense)]
          l2 == [l1 EXCEPT !.licenseIndex[licensee][tokenId] =
                     Len(l1.tokenLicenses[tokenId]) - 1]
          l3 == [l2 EXCEPT !.currentLicensee[tokenId] = licensee]
          u == updateLicenseStatus(rg, l3, tk, LICENSING, tokenId, TRUE)
      IN IF ~u.ok THEN RevertS(rg, l3, tk, u.err)
         ELSE OkS(u.reg, l3, tk,
                  u.events \o
                  <<[name |-> "LicenseGranted", tokenId |-> tokenId,
                     licensee |-> licensee, startDate |-> startDate,
                     endDate |-> endDate, termsHash |-> termsHash,
                     licenseType |-> licenseType]>>,
                  <<>>)

LicensingRevokeLicense(rg, lc, tk, sender, value, tokenId, licensee) ==
    IF value > 0 THEN RevertS(rg, lc, tk, "non-payable function")
    ELSE IF ~Exists(rg.owners, tokenId) THEN RevertS(rg, lc, tk, "ERC721: invalid token ID")
    ELSE IF ~CallerIsOwner(rg.owners, tokenId, sender) THEN RevertS(rg, lc, tk, "Not owner")
    ELSE
      LET index == lc.licenseIndex[licensee][tokenId]
      IN IF ~(index < Len(lc.tokenLicenses[tokenId]))
         THEN RevertS(rg, lc, tk, "Panic(0x32): array index out of bounds")
         ELSE IF ~lc.tokenLicenses[tokenId][index + 1].isActive
              THEN RevertS(rg, lc, tk, "License not active")
         ELSE
           LET l1 == [lc EXCEPT !.tokenLicenses[tokenId][index + 1].isActive = FALSE]
               ev == <<[name |-> "LicenseRevoked", tokenId |-> tokenId,
                        licensee |-> licensee]>>
           IN IF lc.currentLicensee[tokenId] = licensee
              THEN LET l2 == [l1 EXCEPT !.currentLicensee[tokenId] = NoAddr]
                       u == updateLicenseStatus(rg, l2, tk, LICENSING, tokenId, FALSE)
                   IN IF ~u.ok THEN RevertS(rg, l2, tk, u.err)
                      ELSE OkS(u.reg, l2, tk, u.events \o ev, <<>>)
              ELSE OkS(rg, l1, tk, ev, <<>>)

(***************************************************************************)
(* The payment token of the RoyaltyDistributor: an ERC-20 contract outside *)
(* the repository.  transferFrom of a token that throws aborts the call;   *)
(* one that reports failure returns false and moves nothing.  Both are     *)
(* within the interface the distributor is compiled against.               *)
(***************************************************************************)
TokenKinds == {"throws", "returns false"}

CanTransferFrom(tk, from, amount) == tk.balances[from] >= amount

\* The token's storage after transferFrom(from, to, amount) returns.
TokenTransferFrom(tk, from, to, amount) ==
    IF CanTransferFrom(tk, from, amount)
    THEN [tk EXCEPT !.balances = [@ EXCEPT ![from] = @ - amount, ![to] = @ + amount]]
    ELSE tk

TokenThrows(tk, from, amount) == tk.kind = "throws" /\ ~CanTransferFrom(tk, from, amount)

(***************************************************************************)
(* RoyaltyDistributor                                                      *)
(***************************************************************************)
distributeRoyalty(rg, lc, tk, sender, tokenId, seller, salePrice) ==
    IF ~(sender = Marketplace) THEN RevertS(rg, lc, tk, "Unauthorized")
    ELSE
      LET info == RegistryRoyaltyInfo(rg, lc, tk, tokenId, salePrice)
      IN IF ~info.ok THEN RevertS(rg, lc, tk, info.err)
         ELSE
           LET creator == info.ret[1]
               royaltyAmount == info.ret[2]
           IN IF royaltyAmount > salePrice
              THEN RevertS(rg, lc, tk, "Panic(0x11): arithmetic underflow")
              ELSE
                LET sellerAmount == salePrice - royaltyAmount
                IN IF TokenThrows(tk, sender, royaltyAmount)
                   THEN RevertS(rg, lc, tk, "ERC20: transfer amount exceeds balance")
                   ELSE
                     LET t1 == TokenTransferFrom(tk, sender, creator, royaltyAmount)
                     IN IF TokenThrows(t1, sender, sellerAmount)
                        THEN RevertS(rg, lc, t1, "ERC20: transfer amount exceeds balance")
                        ELSE OkS(rg, lc, TokenTransferFrom(t1, sender, seller, sellerAmount),
                                 <<[name |-> "RoyaltyDistributed", tokenId |-> tokenId,
                                    creator |-> creator, seller |-> seller,
                                    royaltyAmount |-> royaltyAmount,
                                    sellerAmount |-> sellerAmount]>>,
                                 <<>>)

distributePrimarySale(rg, lc, tk, sender, tokenId, buyer, salePrice) ==
    IF ~(sender = Marketplace) THEN RevertS(rg, lc, tk, "Unauthorized")
    ELSE
      LET info == RegistryRoyaltyInfo(rg, lc, tk, tokenId, salePrice)
      IN IF ~info.ok THEN RevertS(rg, lc, tk, info.err)
         ELSE
           LET creator == info.ret[1]
               platformFee == salePrice \div PRIMARY_FEE_DIVISOR
               creatorAmount == salePrice - platformFee
           IN IF TokenThrows(tk, buyer, creatorAmount)
              THEN RevertS(rg, lc, tk, "ERC20: transfer amount exceeds balance")
              ELSE
                LET t1 == TokenTransferFrom(tk, buyer, creator, creatorAmount)
                IN IF TokenThrows(t1, buyer, platformFee)
                   THEN RevertS(rg, lc, t1, "ERC20: transfer amount exceeds balance")
                   ELSE OkS(rg, lc, TokenTransferFrom(t1, buyer, Marketplace, platformFee),
                            <<[name |-> "PrimarySaleDistributed", tokenId |-> tokenId,
                               creator |-> creator, buyer |-> buyer,
                               creatorAmount |-> creatorAmount,
                               platformFee |-> platformFee]>>,
                            <<>>)

(***************************************************************************)
(* Initial state: after the constructors have run.                         *)
(***************************************************************************)
NoArtwork ==
    [creator |-> NoAddr, metadataURI |-> "", royaltyPercentage |-> 0, isLicensed |-> FALSE]

DrmInit ==
    [currentTokenId |-> 0,
     licenseCounter |-> 0,
     artworks |-> [t \in TokenIds |-> NoArtwork],
     tokenLicenses |-> [t \in TokenIds |-> <<>>],
     creatorArtworks |-> [a \in Accounts |-> <<>>],
     owners |-> [t \in TokenIds |-> NoAddr],
     tokenURIs |-> [t \in TokenIds |-> ""]]

(***************************************************************************)
(* PaymentSplitter.  Its storage, its balance and what each account has    *)
(* received from it.                                                       *)
(***************************************************************************)
SplitterOk(sp) == [ok |-> TRUE, err |-> "", sp |-> sp]

SplitterRevert(sp, err) == [ok |-> FALSE, err |-> err, sp |-> sp]

TxP(sp, r) == IF r.ok THEN r ELSE [r EXCEPT !.sp = sp]

\* The contract before its constructor body runs.
EmptySplitter ==
    [payees |-> <<>>,
     shares |-> [a \in Accounts \cup {NoAddr} |-> 0],
     totalShares |-> 0,
     balance |-> 0,
     received |-> [a \in Accounts |-> 0]]

addPayee(sp, account, share) ==
    IF ~(account # NoAddr) THEN SplitterRevert(sp, "Invalid address")
    ELSE IF ~(share > 0) THEN SplitterRevert(sp, "Share must be positive")
    ELSE SplitterOk([sp EXCEPT !.payees = Append(@, account),
                               !.shares[account] = share,
                               !.totalShares = @ + share])

\* The constructor's loop from index i on (indices are 1-based).
RECURSIVE AddPayees(_, _, _, _)
AddPayees(sp, payees, shares, i) ==
    IF i > Len(payees) THEN SplitterOk(sp)
    ELSE LET r == addPayee(sp, payees[i], shares[i])
         IN IF ~r.ok THEN r ELSE AddPayees(r.sp, payees, shares, i + 1)

constructor(payees, shares) ==
    IF ~(Len(payees) = Len(shares)) THEN SplitterRevert(EmptySplitter, "Invalid input")
    ELSE AddPayees(EmptySplitter, payees, shares, 1)

\* The loop of distribute from index i on; balance is address(this).balance
\* as read before the loop.
RECURSIVE PayOut(_, _, _)
PayOut(sp, balance, i) ==
    IF i > Len(sp.payees) THEN SplitterOk(sp)
    ELSE
      LET payee == sp.payees[i]
          share == (balance * sp.shares[payee]) \div sp.totalShares
      IN IF MulOverflows(balance, sp.shares[payee])
         THEN SplitterRevert(sp, "Panic(0x11): arithmetic overflow")
         ELSE IF ~(sp.balance >= share /\ payee \in AcceptsEth)
              THEN SplitterRevert(sp, "transfer failed")
         ELSE PayOut([sp EXCEPT !.balance = @ - share, !.received[payee] = @ + share],
                     balance, i + 1)

distribute(sp) == PayOut(sp, sp.balance, 1)

\* receive() external payable { distribute(); }
receive(sp, value) == distribute([sp EXCEPT !.balance = @ + value])

EthInit ==
    [a \in Accounts \cup {THIS} |->
        IF a \in {"alice", "bob", "vault", "hook"} THEN InitialFunds ELSE 0]

NoCall == [op |-> "none", ok |-> TRUE, err |-> "", events |-> <<>>, ret |-> <<>>]

\* The lists the PaymentSplitter is deployed with.
SeqsUpTo(S, n) == UNION {[1 .. k -> S] : k \in 0 .. n}
PayeeChoices == {"alice", "bob", NoAddr}
ShareChoices == {0, 3, 5}
PayeeLists == SeqsUpTo(PayeeChoices, MaxPayees)
ShareLists == SeqsUpTo(ShareChoices, MaxPayees)

\* The contracts the constructor accepts.
Deployments ==
    LET tried == {constructor(ps, ss) : ps \in PayeeLists, ss \in ShareLists}
    IN {c.sp : c \in {x \in tried : x.ok}}

\* Licensing and settlement do not read each other's state, so a run
\* exercises one of them; registration and ownership transfer are in both.
\* In "Registry.administration" the registry's owner also re-points the
\* licensing contract after deployment.
Scopes ==
    {"ArtDRM.licensing", "ArtDRM.settlement", "Registry.licensing",
     "Registry.administration", "RoyaltyDistributor", "PaymentSplitter"}

RegInit ==
    [tokenCount |-> 0,
     artworks |-> [t \in TokenIds |-> NoArtwork],
     tokenURIs |-> [t \in TokenIds |-> ""],
     owners |-> [t \in TokenIds |-> NoAddr],
     licensingContract |-> NoAddr]

LicInit ==
    [tokenLicenses |-> [t \in TokenIds |-> <<>>],
     licenseIndex |-> [a \in Accounts \cup {NoAddr} |-> [t \in TokenIds |-> 0]],
     currentLicensee |-> [t \in TokenIds |-> NoAddr]]

TokenInit(kind) ==
    [kind |-> kind,
     balances |-> [a \in Accounts |-> IF a \in {Marketplace, "bob"} THEN InitialFunds ELSE 0]]

Init ==
    /\ scope \in Scopes
    /\ now = GenesisTime
    /\ drm = DrmInit
    /\ eth = EthInit
    /\ reg = RegInit
    /\ lic = LicInit
    /\ \E kind \in (IF scope = "RoyaltyDistributor" THEN TokenKinds ELSE {"throws"}) :
          dist = TokenInit(kind)
    /\ splitter \in (IF scope = "PaymentSplitter" THEN Deployments ELSE {EmptySplitter})
    /\ last = NoCall

(***************************************************************************)
(* Transactions against ArtDRM.  last records what the caller observes.    *)
(***************************************************************************)
Called(op, r) ==
    [op |-> op, ok |-> r.ok, err |-> r.err, events |-> r.events, ret |-> r.ret]

InDrm == scope \in {"ArtDRM.licensing", "ArtDRM.settlement"}

RegisterArtwork(sender, metadataURI, royaltyPercentage) ==
    /\ InDrm
    /\ drm.currentTokenId < MaxTokens
    /\ LET r == Tx(drm, eth, registerArtwork(drm, eth, sender, metadataURI, royaltyPercentage))
       IN /\ drm' = r.drm
          /\ eth' = r.eth
          /\ last' = Called("registerArtwork", r)
    /\ UNCHANGED <<scope, now, reg, lic, dist, splitter>>

GrantLicense(sender, value, tokenId, licensee, durationDays, termsHash, licenseType) ==
    /\ scope = "ArtDRM.licensing"
    /\ eth[sender] >= value
    /\ drm.licenseCounter < MaxLicenses
    /\ LET r == Tx(drm, eth, grantLicense(drm, eth, sender, value, tokenId, licensee,
                             durationDays, termsHash, licenseType, now))
       IN /\ drm' = r.drm
          /\ eth' = r.eth
          /\ last' = Called("grantLicense", r)
    /\ UNCHANGED <<scope, now, reg, lic, dist, splitter>>

RevokeLicense(sender, tokenId, licensee) ==
    /\ scope = "ArtDRM.licensing"
    /\ LET r == Tx(drm, eth, revokeLicense(drm, eth, sender, tokenId, licensee, now))
       IN /\ drm' = r.drm
          /\ eth' = r.eth
          /\ last' = Called("revokeLicense", r)
    /\ UNCHANGED <<scope, now, reg, lic, dist, splitter>>

HandleSale(sender, value, tokenId, salePrice) ==
    /\ scope = "ArtDRM.settlement"
    /\ eth[sender] >= value
    /\ LET r == Tx(drm, eth, handleSale(drm, eth, sender, value, tokenId, salePrice))
       IN /\ drm' = r.drm
          /\ eth' = r.eth
          /\ last' = Called("handleSale", r)
    /\ UNCHANGED <<scope, now, reg, lic, dist, splitter>>

WithdrawBalance(sender) ==
    /\ scope = "ArtDRM.settlement"
    /\ LET r == Tx(drm, eth, withdrawBalance(drm, eth, sender))
       IN /\ drm' = r.drm
          /\ eth' = r.eth
          /\ last' = Called("withdrawBalance", r)
    /\ UNCHANGED <<scope, now, reg, lic, dist, splitter>>

TransferFrom(sender, from, to, tokenId) ==
    /\ InDrm
    /\ LET r == Tx(drm, eth, transferFrom(drm, eth, sender, from, to, tokenId))
       IN /\ drm' = r.drm
          /\ eth' = r.eth
          /\ last' = Called("transferFrom", r)
    /\ UNCHANGED <<scope, now, reg, lic, dist, splitter>>

\* What the callback may call: a grant with the fee attached, a revoke, a
\* second registration.
InnerCalls ==
    {[fn |-> "grantLicense", licensee |-> "bob", fee |-> LICENSE_FEE, days |-> 30,
      type |-> "EXCLUSIVE"],
     [fn |-> "revokeLicense", licensee |-> "bob", fee |-> 0, days |-> 0,
      type |-> "PERSONAL"],
     [fn |-> "registerArtwork", licensee |-> NoAddr, fee |-> 0, days |-> 0,
      type |-> "PERSONAL"]}

\* The ids and licence numbers the nested call takes stay within the bounds.
InnerCallFits(d, inner) ==
    /\ d.currentTokenId < MaxTokens
    /\ inner.fn = "registerArtwork" => d.currentTokenId + 1 < MaxTokens
    /\ inner.fn = "grantLicense" => d.licenseCounter < MaxLicenses

RegisterArtworkReentered(sender, metadataURI, royaltyPercentage, inner) ==
    /\ scope = "ArtDRM.licensing"
    /\ sender \in Reenters
    /\ InnerCallFits(drm, inner)
    /\ LET r == Tx(drm, eth, registerArtworkReentered(drm, eth, sender, metadataURI,
                                                      royaltyPercentage, inner, now))
       IN /\ drm' = r.drm
          /\ eth' = r.eth
          /\ last' = Called("registerArtwork/onERC721Received", r)
    /\ UNCHANGED <<scope, now, reg, lic, dist, splitter>>

GetArtworkInfo(tokenId) ==
    /\ scope = "ArtDRM.licensing"
    /\ LET r == Tx(drm, eth, getArtworkInfo(drm, eth, tokenId))
       IN /\ drm' = r.drm
          /\ eth' = r.eth
          /\ last' = Called("getArtworkInfo", r)
    /\ UNCHANGED <<scope, now, reg, lic, dist, splitter>>

GetActiveLicenses(tokenId) ==
    /\ scope = "ArtDRM.licensing"
    /\ LET r == Tx(drm, eth, getActiveLicenses(drm, eth, tokenId, now))
       IN /\ drm' = r.drm
          /\ eth' = r.eth
          /\ last' = Called("getActiveLicenses", r)
    /\ UNCHANGED <<scope, now, reg, lic, dist, splitter>>

IsLicenseValid(tokenId, licensee) ==
    /\ scope = "ArtDRM.licensing"
    /\ LET r == Tx(drm, eth, isLicenseValid(drm, eth, tokenId, licensee, now))
       IN /\ drm' = r.drm
          /\ eth' = r.eth
          /\ last' = Called("isLicenseValid", r)
    /\ UNCHANGED <<scope, now, reg, lic, dist, splitter>>

RoyaltyInfo(tokenId, salePrice) ==
    /\ scope = "ArtDRM.settlement"
    /\ LET r == Tx(drm, eth, royaltyInfo(drm, eth, tokenId, salePrice))
       IN /\ drm' = r.drm
          /\ eth' = r.eth
          /\ last' = Called("royaltyInfo", r)
    /\ UNCHANGED <<scope, now, reg, lic, dist, splitter>>

(***************************************************************************)
(* Transactions against the split deployment.                              *)
(***************************************************************************)
InRegistry == scope \in {"Registry.licensing", "Registry.administration", "RoyaltyDistributor"}

InLicensing == scope \in {"Registry.licensing", "Registry.administration"}

LicenseCount == Len(lic.tokenLicenses[0]) + Len(lic.tokenLicenses[1])

Commit(op, call) ==
    LET r == TxS(reg, lic, dist, call) IN
    /\ reg' = r.reg
    /\ lic' = r.lic
    /\ dist' = r.dist
    /\ last' = Called(op, r)
    /\ UNCHANGED <<scope, now, drm, eth, splitter>>

RegistryRegister(sender, owner, metadataURI, royaltyPercentage) ==
    /\ InRegistry
    /\ reg.tokenCount < MaxTokens
    /\ Commit("Registry.registerArtwork",
              RegistryRegisterArtwork(reg, lic, dist, sender, owner, metadataURI,
                                      royaltyPercentage))

RegistryRegisterReentered(sender, owner, metadataURI, royaltyPercentage, catches) ==
    /\ scope = "Registry.administration"
    /\ owner \in Reenters
    /\ reg.tokenCount < MaxTokens
    /\ Commit("Registry.registerArtwork/onERC721Received",
              RegistryRegisterArtworkReentered(reg, lic, dist, sender, owner, metadataURI,
                                               royaltyPercentage, catches))

SetLicensingContract(sender, licensingContract) ==
    /\ InLicensing
    /\ Commit("Registry.setLicensingContract",
              setLicensingContract(reg, lic, dist, sender, licensingContract))

UpdateLicenseStatus(sender, tokenId, status) ==
    /\ InLicensing
    /\ Commit("Registry.updateLicenseStatus",
              updateLicenseStatus(reg, lic, dist, sender, tokenId, status))

RegistryTransfer(sender, from, to, tokenId) ==
    /\ scope = "Registry.licensing"
    /\ Commit("Registry.transferFrom",
              RegistryTransferFrom(reg, lic, dist, sender, from, to, tokenId))

RegistryInfo(tokenId) ==
    /\ scope = "Registry.licensing"
    /\ Commit("Registry.getArtworkInfo", RegistryGetArtworkInfo(reg, lic, dist, tokenId))

RegistryRoyalty(tokenId, salePrice) ==
    /\ scope = "RoyaltyDistributor"
    /\ Commit("Registry.royaltyInfo", RegistryRoyaltyInfo(reg, lic, dist, tokenId, salePrice))

LicensingGrant(sender, value, tokenId, licensee, durationInDays, termsHash, licenseType) ==
    /\ InLicensing
    /\ eth[sender] >= value
    /\ LicenseCount < MaxLicenses
    /\ Commit("Licensing.grantLicense",
              LicensingGrantLicense(reg, lic, dist, sender, value, tokenId, licensee,
                                    durationInDays, termsHash, licenseType, now))

LicensingRevoke(sender, value, tokenId, licensee) ==
    /\ InLicensing
    /\ eth[sender] >= value
    /\ Commit("Licensing.revokeLicense",
              LicensingRevokeLicense(reg, lic, dist, sender, value, tokenId, licensee))

DistributeRoyalty(sender, tokenId, seller, salePrice) ==
    /\ scope = "RoyaltyDistributor"
    /\ Commit("Distributor.distributeRoyalty",
              distributeRoyalty(reg, lic, dist, sender, tokenId, seller, salePrice))

DistributePrimarySale(sender, tokenId, buyer, salePrice) ==
    /\ scope = "RoyaltyDistributor"
    /\ Commit("Distributor.distributePrimarySale",
              distributePrimarySale(reg, lic, dist, sender, tokenId, buyer, salePrice))

(***************************************************************************)
(* Transactions against the PaymentSplitter.                               *)
(***************************************************************************)
\* Everything that has entered the contract: what it holds and what it has
\* paid out.
Deposited(sp) == sp.balance + sp.received["alice"] + sp.received["bob"]

SplitterCommit(op, r) ==
    /\ splitter' = r.sp
    /\ last' = [op |-> op, ok |-> r.ok, err |-> r.err, events |-> <<>>, ret |-> <<>>]
    /\ UNCHANGED <<scope, now, drm, eth, reg, lic, dist>>

Distribute ==
    /\ scope = "PaymentSplitter"
    /\ SplitterCommit("Splitter.distribute", TxP(splitter, distribute(splitter)))

Receive(value) ==
    /\ scope = "PaymentSplitter"
    /\ Deposited(splitter) + value <= MaxDeposits
    /\ SplitterCommit("Splitter.receive", TxP(splitter, receive(splitter, value)))

\* Value that reaches the contract without a call of receive: the
\* beneficiary of a selfdestruct or of a block reward runs no code.
ForcedDeposit(value) ==
    /\ scope = "PaymentSplitter"
    /\ Deposited(splitter) + value <= MaxDeposits
    /\ splitter' = [splitter EXCEPT !.balance = @ + value]
    /\ last' = [NoCall EXCEPT !.op = "Splitter.forced deposit"]
    /\ UNCHANGED <<scope, now, drm, eth, reg, lic, dist>>

\* The clock: block.timestamp never decreases between transactions.
Tick(delta) ==
    /\ scope \in {"ArtDRM.licensing", "Registry.licensing"}
    /\ now + delta <= Horizon
    /\ now' = now + delta
    /\ last' = [NoCall EXCEPT !.op = "tick"]
    /\ UNCHANGED <<scope, drm, eth, reg, lic, dist, splitter>>

(***************************************************************************)
(* Inputs.                                                                 *)
(***************************************************************************)
Registrants == IF scope = "ArtDRM.settlement" THEN {"alice", "vault", "escrow"}
               ELSE {"alice", "escrow"}
MetadataURIs == {"", "ipfs://a"}
Royalties == IF scope = "ArtDRM.settlement" THEN {1000, MAX_ROYALTY, MAX_ROYALTY + 1}
             ELSE {MAX_ROYALTY, MAX_ROYALTY + 1}
Holders == {"alice", "bob", "vault"}
Licensees == {NoAddr, "alice", "bob"}
\* What a grant call asks for: a sound offer per licensee, and offers that
\* break one or several of the preconditions.
Offers ==
    {[licensee |-> "alice", days |-> 30, type |-> "PERSONAL",   fee |-> LICENSE_FEE],
     [licensee |-> "bob",   days |-> 30, type |-> "EXCLUSIVE",  fee |-> LICENSE_FEE + 1],
     [licensee |-> "bob",   days |-> 30, type |-> "COMMERCIAL", fee |-> LICENSE_FEE - 1],
     [licensee |-> "alice", days |-> 0,  type |-> "COMMERCIAL", fee |-> LICENSE_FEE],
     [licensee |-> NoAddr,  days |-> 30, type |-> "PERSONAL",   fee |-> LICENSE_FEE],
     [licensee |-> NoAddr,  days |-> 0,  type |-> "PERSONAL",   fee |-> LICENSE_FEE - 1]}
\* What the registry's owner sets as licensing contract: the deployed
\* ArtworkLicensing, as the deployment script does, or another address.
LicensingContracts == IF scope = "Registry.administration" THEN {LICENSING, Deployer}
                      ELSE {LICENSING}
\* Who calls the registry's updateLicenseStatus directly.
StatusCallers == IF scope = "Registry.administration" THEN {Deployer, "alice"}
                 ELSE {"alice"}
Prices == {1000, 1019}
\* What is sent to the PaymentSplitter in one transfer.
Deposits == {3, 8}
\* A price whose product with a royalty no longer fits in a uint256.
HugePrice == 200000000
CallTokens == 0 .. (MaxTokens - 1)
TimeSteps == {30 * DAY, 30 * DAY + 1}
RegistryRoyalties == IF scope = "RoyaltyDistributor"
                     THEN {10, REGISTRY_MAX_ROYALTY, REGISTRY_MAX_ROYALTY + 1}
                     ELSE IF scope = "Registry.administration"
                     THEN {REGISTRY_MAX_ROYALTY}
                     ELSE {REGISTRY_MAX_ROYALTY, REGISTRY_MAX_ROYALTY + 1, MAX_ROYALTY}
RegistryURIs == IF scope = "RoyaltyDistributor" THEN {"ipfs://a"} ELSE {"ipfs://b"}
\* ArtworkLicensing takes no fee: value is what the caller attaches anyway.
SplitOffers ==
    {[licensee |-> "alice", days |-> 30, type |-> "PERSONAL",   fee |-> 0],
     [licensee |-> "bob",   days |-> 30, type |-> "EXCLUSIVE",  fee |-> 0],
     [licensee |-> NoAddr,  days |-> 30, type |-> "COMMERCIAL", fee |-> 0],
     [licensee |-> "alice", days |-> 0,  type |-> "COMMERCIAL", fee |-> 0],
     [licensee |-> "bob",   days |-> 30, type |-> "COMMERCIAL", fee |-> LICENSE_FEE]}

Next ==
    \/ \E s \in Registrants, u \in MetadataURIs, p \in Royalties : RegisterArtwork(s, u, p)
    \/ \E s \in Holders, t \in CallTokens, o \in Offers :
          GrantLicense(s, o.fee, t, o.licensee, o.days, "QmTerms", o.type)
    \/ \E s \in Holders, t \in CallTokens, l \in Licensees : RevokeLicense(s, t, l)
    \/ \E t \in CallTokens, p \in Prices, x \in {-1, 0, 1} : HandleSale("bob", p + x, t, p)
    \/ \E s \in {Deployer, "alice"} : WithdrawBalance(s)
    \/ \E s \in Holders, to \in {"bob", "vault", NoAddr}, t \in CallTokens :
          TransferFrom(s, s, to, t)
    \/ \E s \in Reenters, i \in InnerCalls :
          RegisterArtworkReentered(s, "ipfs://a", MAX_ROYALTY, i)
    \/ \E t \in CallTokens : GetArtworkInfo(t)
    \/ \E t \in CallTokens : GetActiveLicenses(t)
    \/ \E t \in CallTokens, l \in Licensees : IsLicenseValid(t, l)
    \/ \E t \in CallTokens, p \in Prices \cup {HugePrice} : RoyaltyInfo(t, p)
    \/ \E o \in {"alice", "bob", "escrow", NoAddr}, u \in RegistryURIs,
          p \in RegistryRoyalties : RegistryRegister("alice", o, u, p)
    \/ \E s \in {"alice", "hook"}, o \in Reenters, c \in BOOLEAN :
          RegistryRegisterReentered(s, o, "ipfs://a", REGISTRY_MAX_ROYALTY, c)
    \/ \E s \in {Deployer, "alice"}, c \in LicensingContracts : SetLicensingContract(s, c)
    \/ \E s \in StatusCallers, t \in CallTokens, b \in BOOLEAN :
          UpdateLicenseStatus(s, t, b)
    \/ \E s \in {"alice", "bob"}, to \in {"bob", NoAddr}, t \in CallTokens :
          RegistryTransfer(s, s, to, t)
    \/ \E t \in CallTokens : RegistryInfo(t)
    \/ \E t \in CallTokens, p \in Prices \cup {HugePrice} : RegistryRoyalty(t, p)
    \/ \E s \in {"alice", "bob"}, t \in CallTokens, o \in SplitOffers :
          LicensingGrant(s, o.fee, t, o.licensee, o.days, "QmTerms", o.type)
    \/ \E s \in {"alice", "bob"}, t \in CallTokens, l \in Licensees :
          LicensingRevoke(s, 0, t, l)
    \/ \E s \in {Marketplace, "alice"}, t \in CallTokens, p \in Prices :
          DistributeRoyalty(s, t, "vault", p)
    \/ \E s \in {Marketplace, "alice"}, t \in CallTokens, p \in Prices :
          DistributePrimarySale(s, t, "bob", p)
    \/ Distribute
    \/ \E v \in Deposits : Receive(v)
    \/ \E v \in Deposits : ForcedDeposit(v)
    \/ \E delta \in TimeSteps : Tick(delta)

Spec == Init /\ [][Next]_vars

(***************************************************************************)
(* Properties.                                                             *)
(***************************************************************************)
CanRegister == InDrm /\ drm.currentTokenId < MaxTokens
CanRegistryRegister == InRegistry /\ reg.tokenCount < MaxTokens

ProbeRoyalties ==
    {0, 1, REGISTRY_MAX_ROYALTY, REGISTRY_MAX_ROYALTY + 1, 1000, MAX_ROYALTY - 1,
     MAX_ROYALTY, MAX_ROYALTY + 1, BPS_DENOMINATOR}

InvalidRoyalty == "Royalty exceeds maximum"
RegistryInvalidRoyalty == "Royalty cannot exceed 20%"

\* C1 as the claim has it: in ArtDRM a registration above 2000 basis points
\* fails as InvalidRoyalty and one within [0, 2000] succeeds, whatever the
\* caller and the metadata reference are.
C1_AsClaimed ==
    CanRegister =>
      \A s \in Accounts, u \in MetadataURIs, p \in ProbeRoyalties :
         LET r == Tx(drm, eth, registerArtwork(drm, eth, s, u, p))
         IN /\ p > MAX_ROYALTY => ~r.ok /\ r.err = InvalidRoyalty /\ r.drm = drm
            /\ p <= MAX_ROYALTY => r.ok

\* C1: a registration above the contract's maximum royalty (2000 basis
\* points in ArtDRM, 20 percent in ArtworkRegistry) fails as InvalidRoyalty
\* and creates no artwork; one within the maximum succeeds exactly when the
\* metadata reference is not empty (ArtDRM) and the account minted to
\* accepts the token; every stored artwork has a royalty within the maximum.
C1_RoyaltyBound ==
    /\ CanRegister =>
         \A s \in Accounts, u \in MetadataURIs, p \in ProbeRoyalties :
            LET r == Tx(drm, eth, registerArtwork(drm, eth, s, u, p))
            IN /\ p > MAX_ROYALTY => ~r.ok /\ r.err = InvalidRoyalty /\ r.drm = drm
               /\ p <= MAX_ROYALTY => (r.ok <=> (u # "" /\ s \in AcceptsNft))
    /\ CanRegistryRegister =>
         \A o \in Accounts \cup {NoAddr}, u \in MetadataURIs, p \in ProbeRoyalties :
            LET r == TxS(reg, lic, dist,
                         RegistryRegisterArtwork(reg, lic, dist, "alice", o, u, p))
            IN /\ p > REGISTRY_MAX_ROYALTY =>
                     ~r.ok /\ r.err = RegistryInvalidRoyalty /\ r.reg = reg
               /\ p <= REGISTRY_MAX_ROYALTY => (r.ok <=> o \in AcceptsNft)
    /\ \A t \in TokenIds :
          /\ Exists(drm.owners, t) => drm.artworks[t].royaltyPercentage <= MAX_ROYALTY
          /\ Exists(reg.owners, t) =>
                reg.artworks[t].royaltyPercentage * REGISTRY_DENOMINATOR <= MAX_ROYALTY

\* A registration has just been refused for its royalty while an artwork
\* registered at exactly the maximum exists.
C1_Witness ==
    /\ last.op = "registerArtwork" /\ ~last.ok /\ last.err = InvalidRoyalty
    /\ \E t \in TokenIds :
          Exists(drm.owners, t) /\ drm.artworks[t].royaltyPercentage = MAX_ROYALTY

\* C2: a successful registration returns the id the counter held, which is
\* above every id in use and was not in use, and advances the counter by
\* one; a failed registration leaves the counter and the ids in use as they
\* were.  The ids in use are always exactly those below the counter.
C2_MonotonicIds ==
    [][/\ (last'.op = "registerArtwork" /\ last'.ok) =>
             /\ last'.ret = drm.currentTokenId
             /\ drm'.currentTokenId = drm.currentTokenId + 1
             /\ \A t \in TokenIds : Exists(drm.owners, t) => t < last'.ret
             /\ \A t \in TokenIds : Exists(drm'.owners, t) <=> t < drm'.currentTokenId
       /\ (last'.op = "registerArtwork" /\ ~last'.ok) =>
             /\ drm'.currentTokenId = drm.currentTokenId
             /\ drm'.owners = drm.owners
       /\ (last'.op = "Registry.registerArtwork" /\ last'.ok) =>
             /\ last'.ret = reg.tokenCount
             /\ reg'.tokenCount = reg.tokenCount + 1
             /\ \A t \in TokenIds : Exists(reg.owners, t) => t < last'.ret
             /\ \A t \in TokenIds : Exists(reg'.owners, t) <=> t < reg'.tokenCount
       /\ (last'.op = "Registry.registerArtwork" /\ ~last'.ok) =>
             /\ reg'.tokenCount = reg.tokenCount
             /\ reg'.owners = reg.owners
      ]_vars

\* Two artworks exist, the second registered after a refused attempt is
\* possible in between; the last call returned id 1.
C2_Witness ==
    /\ last.op = "registerArtwork" /\ last.ok /\ last.ret = 1
    /\ drm.currentTokenId = 2
    /\ Exists(drm.owners, 0) /\ Exists(drm.owners, 1)

ProbePrices == {0, 1, 19, 20, 999, 1000, 1019}

RECURSIVE SumGain(_, _, _)
SumGain(S, before, after) ==
    IF S = {} THEN 0
    ELSE LET a == CHOOSE x \in S : TRUE
         IN (after[a] - before[a]) + SumGain(S \ {a}, before, after)

\* C3: every successful handleSale with msg.value >= salePrice pays out of
\* the contract exactly salePrice: no recipient loses, the recipients' gains
\* add up to salePrice, and the contract keeps msg.value - salePrice; the
\* amounts a successful distributor call announces add up to salePrice too.
C3_SettlementConservation ==
    /\ scope = "ArtDRM.settlement" =>
         \A t \in CallTokens, s \in {"alice", "bob"}, p \in ProbePrices, x \in {0, 1} :
            eth[s] >= p + x =>
              LET paid == Pay(eth, s, THIS, p + x)
                  r == Tx(drm, eth, handleSale(drm, eth, s, p + x, t, p))
              IN r.ok =>
                   /\ \A a \in Accounts : r.eth[a] >= paid[a]
                   /\ SumGain(Accounts, paid, r.eth) = p
                   /\ r.eth[THIS] = eth[THIS] + x
    /\ scope = "RoyaltyDistributor" =>
         \A t \in CallTokens, p \in ProbePrices :
            LET a == TxS(reg, lic, dist,
                         distributeRoyalty(reg, lic, dist, Marketplace, t, "vault", p))
                b == TxS(reg, lic, dist,
                         distributePrimarySale(reg, lic, dist, Marketplace, t, "bob", p))
            IN /\ a.ok => a.events[1].royaltyAmount + a.events[1].sellerAmount = p
               /\ b.ok => b.events[1].creatorAmount + b.events[1].platformFee = p

\* A primary sale at a price that does not divide evenly has been settled:
\* of 1019 the platform got 50 and the creator 969.
C3_Witness ==
    /\ last.op = "handleSale" /\ last.ok /\ last.events = <<>>
    /\ eth[Deployer] = 50
    /\ eth["alice"] = InitialFunds + 969
    /\ eth["bob"] = InitialFunds - 1019

\* C4: handleSale looks only at whether the token's owner is its creator.
\* If so the platform owner gets floor(salePrice*500/10000) and the creator
\* the rest, and no event is logged; if not the creator gets
\* floor(salePrice*royaltyPercentage/10000), the owner the rest and the
\* platform nothing, and RoyaltyPaid carries the royalty.
C4_Routing ==
    scope = "ArtDRM.settlement" =>
      \A t \in CallTokens, s \in {"bob"}, p \in ProbePrices, x \in {0, 1} :
         eth[s] >= p + x =>
           LET paid == Pay(eth, s, THIS, p + x)
               r == Tx(drm, eth, handleSale(drm, eth, s, p + x, t, p))
               owner == drm.owners[t]
               creator == drm.artworks[t].creator
               fee == (p * 500) \div 10000
               royalty == (p * drm.artworks[t].royaltyPercentage) \div 10000
               Is(a, b) == IF a = b THEN 1 ELSE 0
               Primary == [a \in DOMAIN eth |->
                              paid[a] + Is(a, Deployer) * fee + Is(a, creator) * (p - fee)
                                      - Is(a, THIS) * p]
               Secondary == [a \in DOMAIN eth |->
                                paid[a] + Is(a, creator) * royalty
                                        + Is(a, owner) * (p - royalty) - Is(a, THIS) * p]
           IN r.ok =>
                IF owner = creator
                THEN /\ r.eth = Primary
                     /\ r.events = <<>>
                     /\ p = 1000 => fee = 50 /\ Primary[creator] = paid[creator] + 950
                ELSE /\ r.eth = Secondary
                     /\ r.events = <<[name |-> "RoyaltyPaid", tokenId |-> t,
                                      creator |-> creator, amount |-> royalty]>>
                     /\ (p = 1000 /\ drm.artworks[t].royaltyPercentage = 1000) =>
                           /\ Secondary[creator] = paid[creator] + 100
                           /\ Secondary[owner] = paid[owner] + 900

\* A secondary sale of 1000 at a royalty of 1000 basis points has been
\* settled: the creator alice got 100 and the owner bob, who also paid, 900.
C4_Witness ==
    /\ last.op = "handleSale" /\ last.ok
    /\ \E t \in TokenIds :
          /\ drm.owners[t] = "bob" /\ drm.artworks[t].creator = "alice"
          /\ last.events = <<[name |-> "RoyaltyPaid", tokenId |-> t,
                              creator |-> "alice", amount |-> 100]>>
    /\ eth["alice"] = InitialFunds + 100
    /\ eth["bob"] = InitialFunds - 1000 + 900
    /\ eth[Deployer] = 0

\* C5: isLicenseValid(tokenId, licensee) is true exactly when some record
\* of the token's list names the licensee, is active and has endDate >= now.
\* A licence granted at T for 30 days ends at T + 30 * 86400: while active
\* it is valid at that very second, and one second later it no longer makes
\* the licensee valid.
C5_ValidityBoundary ==
    scope = "ArtDRM.licensing" =>
      \A t \in TokenIds :
         Exists(drm.owners, t) =>
           LET licenses == drm.tokenLicenses[t]
               Covers(l, at) == \E i \in 1 .. Len(licenses) :
                                   /\ licenses[i].licensee = l
                                   /\ licenses[i].isActive
                                   /\ licenses[i].endDate >= at
           IN /\ \A l \in Licensees :
                    LET r == isLicenseValid(drm, eth, t, l, now)
                    IN r.ok /\ r.drm = drm /\ r.eth = eth /\ (r.ret <=> Covers(l, now))
              /\ \A i \in 1 .. Len(licenses) :
                    LET lcs == licenses[i]
                        others == \E j \in 1 .. Len(licenses) :
                                     /\ j # i
                                     /\ licenses[j].licensee = lcs.licensee
                                     /\ licenses[j].isActive
                                     /\ licenses[j].endDate > lcs.endDate
                    IN /\ lcs.endDate = lcs.startDate + 30 * DAY
                       /\ lcs.isActive =>
                            isLicenseValid(drm, eth, t, lcs.licensee, lcs.endDate).ret
                       /\ ~others =>
                            ~isLicenseValid(drm, eth, t, lcs.licensee, lcs.endDate + 1).ret

\* isLicenseValid has just answered true at the last valid second of a
\* 30-day licence granted at GenesisTime, the licensee's only one.
C5_Witness ==
    /\ last.op = "isLicenseValid" /\ last.ok /\ last.ret = TRUE
    /\ now = GenesisTime + 30 * DAY
    /\ \E t \in TokenIds :
          /\ Len(drm.tokenLicenses[t]) = 1
          /\ drm.tokenLicenses[t][1].licensee = "bob"
          /\ drm.tokenLicenses[t][1].isActive
          /\ drm.tokenLicenses[t][1].startDate = GenesisTime
          /\ drm.tokenLicenses[t][1].endDate = now
    /\ \A t \in TokenIds : \A i \in 1 .. Len(drm.tokenLicenses[t]) :
          drm.tokenLicenses[t][i].licensee = "bob"

\* The licensee's active records in a list, by index.
ActiveOf(licenses, licensee) ==
    {i \in 1 .. Len(licenses) : licenses[i].licensee = licensee /\ licenses[i].isActive}

\* The highest index among the licensee's active records, 0 when there is
\* none.
LatestActiveOf(licenses, licensee) ==
    LET mine == ActiveOf(licenses, licensee)
    IN IF mine = {} THEN 0 ELSE CHOOSE i \in mine : \A j \in mine : j <= i

\* The list after exactly the record at index i has been deactivated.
Deactivated(licenses, i) ==
    [j \in 1 .. Len(licenses) |->
        IF j = i THEN [licenses[j] EXCEPT !.isActive = FALSE] ELSE licenses[j]]

\* C6, as the specification states it: a successful revoke for a licensee
\* who holds active records deactivates the most recently granted (highest
\* index) of them and leaves every other record as it was, and as long as
\* the licensee has an active record the owner's revoke succeeds.
C6_AsClaimed ==
    [][ /\ (last'.op = "revokeLicense" /\ last'.ok) =>
              LET ev == last'.events[1]
                  old == drm.tokenLicenses[ev.tokenId]
              IN ActiveOf(old, ev.licensee) # {} =>
                    drm'.tokenLicenses[ev.tokenId] =
                       Deactivated(old, LatestActiveOf(old, ev.licensee))
        /\ (last'.op = "Licensing.revokeLicense" /\ last'.ok) =>
              LET ev == last'.events[Len(last'.events)]
                  old == lic.tokenLicenses[ev.tokenId]
              IN ActiveOf(old, ev.licensee) # {} =>
                    lic'.tokenLicenses[ev.tokenId] =
                       Deactivated(old, LatestActiveOf(old, ev.licensee))
        /\ \A t \in TokenIds, l \in Licensees :
              (Exists(reg.owners, t) /\ ActiveOf(lic.tokenLicenses[t], l) # {}) =>
                 LicensingRevokeLicense(reg, lic, dist, reg.owners[t], 0, t, l).ok
      ]_vars

\* The first call left everything as it was and logged nothing, and the
\* same call made again answers the same, a failure included.
SameAgain(r1, r2) ==
    /\ r1.events = <<>>
    /\ r2.ok = r1.ok /\ r2.err = r1.err /\ r2.ret = r1.ret

\* C7: the read-only operations change nothing: in every state, each of
\* them leaves every contract's storage and every balance as it was and
\* logs no event, and repeated on the state its first call left it gives
\* the same answer, a failure included.
C7_QueriesArePure ==
    \A t \in CallTokens :
       /\ LET r1 == Tx(drm, eth, getArtworkInfo(drm, eth, t))
              r2 == Tx(r1.drm, r1.eth, getArtworkInfo(r1.drm, r1.eth, t))
          IN r1.drm = drm /\ r1.eth = eth /\ SameAgain(r1, r2)
       /\ LET r1 == Tx(drm, eth, getActiveLicenses(drm, eth, t, now))
              r2 == Tx(r1.drm, r1.eth, getActiveLicenses(r1.drm, r1.eth, t, now))
          IN r1.drm = drm /\ r1.eth = eth /\ SameAgain(r1, r2)
       /\ \A l \in Licensees :
             LET r1 == Tx(drm, eth, isLicenseValid(drm, eth, t, l, now))
                 r2 == Tx(r1.drm, r1.eth, isLicenseValid(r1.drm, r1.eth, t, l, now))
             IN r1.drm = drm /\ r1.eth = eth /\ SameAgain(r1, r2)
       /\ \A p \in Prices :
             /\ LET r1 == Tx(drm, eth, royaltyInfo(drm, eth, t, p))
                    r2 == Tx(r1.drm, r1.eth, royaltyInfo(r1.drm, r1.eth, t, p))
                IN r1.drm = drm /\ r1.eth = eth /\ SameAgain(r1, r2)
             /\ LET r1 == TxS(reg, lic, dist, RegistryRoyaltyInfo(reg, lic, dist, t, p))
                    r2 == TxS(r1.reg, r1.lic, r1.dist,
                              RegistryRoyaltyInfo(r1.reg, r1.lic, r1.dist, t, p))
                IN r1.reg = reg /\ r1.lic = lic /\ r1.dist = dist /\ SameAgain(r1, r2)
       /\ LET r1 == TxS(reg, lic, dist, RegistryGetArtworkInfo(reg, lic, dist, t))
              r2 == TxS(r1.reg, r1.lic, r1.dist,
                        RegistryGetArtworkInfo(r1.reg, r1.lic, r1.dist, t))
          IN r1.reg = reg /\ r1.lic = lic /\ r1.dist = dist /\ SameAgain(r1, r2)

\* getArtworkInfo has just answered for an artwork whose stored licensed
\* flag is still set although its only licence has expired.
C7_Witness ==
    /\ last.op = "getArtworkInfo" /\ last.ok
    /\ \E t \in TokenIds :
          /\ Exists(drm.owners, t)
          /\ last.ret = <<drm.artworks[t].creator, drm.artworks[t].metadataURI,
                          drm.artworks[t].royaltyPercentage, TRUE>>
          /\ Len(drm.tokenLicenses[t]) = 1
          /\ ~HasActiveLicense(drm.tokenLicenses[t], now)

\* C8, as the specification states it: a grant by the owner with less than
\* the licence fee attached fails whatever the other arguments, with the
\* insufficient-fee error when the fee is the first precondition to fail,
\* and leaves the token's licence list as it was.
C8_AsClaimed ==
    /\ scope = "ArtDRM.licensing" =>
          \A t \in CallTokens, o \in Offers, s \in Registrants \cup Holders :
             (o.fee < LICENSE_FEE /\ eth[s] >= o.fee) =>
                LET r == Tx(drm, eth, grantLicense(drm, eth, s, o.fee, t, o.licensee,
                                                   o.days, "QmTerms", o.type, now))
                IN /\ ~r.ok
                   /\ r.drm.tokenLicenses = drm.tokenLicenses
                   /\ (Exists(drm.owners, t) /\ drm.owners[t] = s /\ o.licensee # NoAddr)
                         => r.err = "Insufficient license fee"
    /\ scope = "Registry.licensing" =>
          \A t \in CallTokens, o \in SplitOffers, s \in Registrants \cup Holders :
             o.fee < LICENSE_FEE =>
                LET r == TxS(reg, lic, dist,
                             LicensingGrantLicense(reg, lic, dist, s, o.fee, t, o.licensee,
                                                   o.days, "QmTerms", o.type, now))
                IN /\ ~r.ok
                   /\ r.lic.tokenLicenses = lic.tokenLicenses
    /\ \A t \in TokenIds : \A i \in 1 .. Len(drm.tokenLicenses[t]) :
          drm.tokenLicenses[t][i].feePaid >= LICENSE_FEE

\* C9: a call that fails leaves no trace: the storage of every contract
\* and every balance are what they were before the call, and no event is
\* logged.
C9_FailureLeavesNoTrace ==
    [][~last'.ok =>
          /\ drm' = drm /\ eth' = eth /\ reg' = reg /\ lic' = lic /\ dist' = dist
          /\ splitter' = splitter
          /\ last'.events = <<>>
          /\ last'.err # ""
      ]_vars

\* handleSale has just failed on its second transfer, to an owner that
\* rejects ether, after the royalty had been sent to the creator: the
\* creator's balance is what it was and the buyer has his money.
C9_Witness ==
    /\ last.op = "handleSale" /\ ~last.ok /\ last.err = "transfer failed"
    /\ \E t \in TokenIds :
          /\ drm.owners[t] = "vault" /\ drm.artworks[t].creator = "alice"
          /\ drm.artworks[t].royaltyPercentage > 0
    /\ eth = EthInit

\* C10, as the specification states it: a sale settlement either makes all
\* of its transfers or none: after a successful call the payer has paid the
\* whole price to the recipients, and after a failed one no balance has
\* changed.
C10_AsClaimed ==
    /\ scope = "ArtDRM.settlement" =>
          \A t \in CallTokens, p \in Prices :
             eth["bob"] >= p =>
                LET r == Tx(drm, eth, handleSale(drm, eth, "bob", p, t, p))
                IN IF r.ok
                   THEN SumGain(Accounts, Pay(eth, "bob", THIS, p), r.eth) = p
                   ELSE r.eth = eth
    /\ scope = "RoyaltyDistributor" =>
          \A t \in CallTokens, p \in Prices :
             /\ LET r == TxS(reg, lic, dist,
                             distributeRoyalty(reg, lic, dist, Marketplace, t, "vault", p))
                IN IF r.ok
                   THEN r.dist.balances[Marketplace] = dist.balances[Marketplace] - p
                   ELSE r.dist = dist
             /\ LET r == TxS(reg, lic, dist,
                             distributePrimarySale(reg, lic, dist, Marketplace, t, "bob", p))
                IN IF r.ok
                   THEN r.dist.balances["bob"] = dist.balances["bob"] - p
                   ELSE r.dist = dist

\* C11, as the specification states it: every mutating entry point holds a
\* lock for the whole call, so a call that the recipient of an outstanding
\* external call makes back into the contract is rejected: a registration
\* that succeeds has logged its own event and nothing else, and has added
\* no licence record and no second artwork.
C11_AsClaimed ==
    scope = "ArtDRM.licensing" =>
      \A s \in Reenters, i \in InnerCalls :
         InnerCallFits(drm, i) =>
           LET r == Tx(drm, eth, registerArtworkReentered(drm, eth, s, "ipfs://a",
                                                          MAX_ROYALTY, i, now))
           IN r.ok =>
                /\ Len(r.events) = 1
                /\ r.events[1].name = "ArtworkRegistered"
                /\ r.drm.tokenLicenses = drm.tokenLicenses
                /\ r.drm.currentTokenId = drm.currentTokenId + 1

\* C12, as the specification states it: at every moment the licensed flag
\* that get returns for an artwork is true exactly when one of the
\* artwork's licence records is active and not past its end.  (Artworks
\* registered by a calling-back contract are left out: what a nested call
\* does to the flag is a matter of its own.)
C12_AsClaimed ==
    \A t \in TokenIds :
       /\ (Exists(drm.owners, t) /\ drm.artworks[t].creator \notin Reenters) =>
             (getArtworkInfo(drm, eth, t).ret[4]
                 <=> HasActiveLicense(drm.tokenLicenses[t], now))
       /\ Exists(reg.owners, t) =>
             (RegistryGetArtworkInfo(reg, lic, dist, t).ret[4]
                 <=> HasActiveLicense(lic.tokenLicenses[t], now))

\* A licence record without its active flag: the fields that are fixed when
\* the record is created.
Terms(license) == [license EXCEPT !.isActive = TRUE]

\* How many LicenseGranted events for the token a call has logged.
GrantsLogged(events, tokenId) ==
    Cardinality({k \in 1 .. Len(events) :
                    events[k].name = "LicenseGranted" /\ events[k].tokenId = tokenId})

\* The list after is the list before, possibly with active flags changed,
\* followed by one new record per grant logged.
Extends(before, after, grants) ==
    /\ Len(after) = Len(before) + grants
    /\ \A i \in 1 .. Len(before) : Terms(after[i]) = Terms(before[i])

\* C13: the licence list of an artwork is an append-only audit trail: in
\* every step each record stays at its index with every field but active
\* as it was, and the list grows by exactly one record per successful
\* grant and by nothing else.
C13_AppendOnly ==
    [][\A t \in TokenIds :
          /\ Extends(drm.tokenLicenses[t], drm'.tokenLicenses[t],
                     IF InDrm THEN GrantsLogged(last'.events, t) ELSE 0)
          /\ Extends(lic.tokenLicenses[t], lic'.tokenLicenses[t],
                     IF InRegistry THEN GrantsLogged(last'.events, t) ELSE 0)
          /\ (last'.op \in {"grantLicense", "Licensing.grantLicense"} /\ last'.ok)
                => \E u \in TokenIds : GrantsLogged(last'.events, u) = 1
      ]_vars

\* A revoke has just been made on a list of two records: both are still
\* there, the first one inactive, the second active.
C13_Witness ==
    /\ last.op = "revokeLicense" /\ last.ok
    /\ \E t \in TokenIds :
          /\ Len(drm.tokenLicenses[t]) = 2
          /\ ~drm.tokenLicenses[t][1].isActive
          /\ drm.tokenLicenses[t][2].isActive
          /\ drm.tokenLicenses[t][1].licensee = "alice"
          /\ drm.tokenLicenses[t][2].licensee = "bob"

\* The indices whose record is active before the step and inactive after.
Deactivations(before, after) ==
    {i \in 1 .. Len(before) : before[i].isActive /\ ~after[i].isActive}

\* C14: a licence record is created active; its flag goes from true to
\* false only in a step that is a successful revoke of that token, which
\* no one but the token's owner at that moment could have made; a record
\* that is inactive stays inactive; and a step of the clock changes no
\* stored flag.
C14_RevocationTerminal ==
    [][\A t \in TokenIds :
          LET oldD == drm.tokenLicenses[t]
              newD == drm'.tokenLicenses[t]
              oldL == lic.tokenLicenses[t]
              newL == lic'.tokenLicenses[t]
          IN /\ \A i \in (Len(oldD) + 1) .. Len(newD) : newD[i].isActive
             /\ \A i \in (Len(oldL) + 1) .. Len(newL) : newL[i].isActive
             /\ \A i \in 1 .. Len(oldD) : ~oldD[i].isActive => ~newD[i].isActive
             /\ \A i \in 1 .. Len(oldL) : ~oldL[i].isActive => ~newL[i].isActive
             /\ Deactivations(oldD, newD) # {} =>
                   /\ last'.op = "revokeLicense" /\ last'.ok
                   /\ last'.events[1].tokenId = t
                   /\ \A s \in Accounts \ {drm.owners[t]}, l \in Licensees :
                         ~revokeLicense(drm, eth, s, t, l, now).ok
             /\ Deactivations(oldL, newL) # {} =>
                   /\ last'.op = "Licensing.revokeLicense" /\ last'.ok
                   /\ last'.events[Len(last'.events)].tokenId = t
                   /\ \A s \in Accounts \ {reg.owners[t]}, l \in Licensees :
                         ~LicensingRevokeLicense(reg, lic, dist, s, 0, t, l).ok
             /\ last'.op = "tick" => (newD = oldD /\ newL = oldL)
      ]_vars

\* The clock has just passed the end of a licence that is still stored as
\* active, next to a record that was revoked earlier.
C14_Witness ==
    /\ last.op = "tick"
    /\ \E t \in TokenIds :
          /\ Len(drm.tokenLicenses[t]) = 2
          /\ ~drm.tokenLicenses[t][1].isActive
          /\ drm.tokenLicenses[t][2].isActive
          /\ now > drm.tokenLicenses[t][2].endDate

\* What is fixed when an artwork is registered.
RegistrationTerms(artwork, uri) ==
    <<artwork.creator, artwork.metadataURI, artwork.royaltyPercentage, uri>>

\* C15: once an artwork is registered, no step changes its creator, its
\* metadata reference or its royalty, and the artwork stays registered;
\* only its owner and its licensed flag may change.
C15_ImmutableTerms ==
    [][\A t \in TokenIds :
          /\ Exists(drm.owners, t) =>
                /\ Exists(drm'.owners, t)
                /\ RegistrationTerms(drm'.artworks[t], drm'.tokenURIs[t])
                      = RegistrationTerms(drm.artworks[t], drm.tokenURIs[t])
          /\ Exists(reg.owners, t) =>
                /\ Exists(reg'.owners, t)
                /\ RegistrationTerms(reg'.artworks[t], reg'.tokenURIs[t])
                      = RegistrationTerms(reg.artworks[t], reg.tokenURIs[t])
      ]_vars

\* An artwork that alice registered has been licensed and has then changed
\* hands: bob owns it, and alice is still its creator at the royalty and
\* metadata she registered.
C15_Witness ==
    /\ last.op = "transferFrom" /\ last.ok
    /\ \E t \in TokenIds :
          /\ drm.owners[t] = "bob"
          /\ drm.artworks[t] = [creator |-> "alice", metadataURI |-> "ipfs://a",
                                royaltyPercentage |-> MAX_ROYALTY, isLicensed |-> TRUE]

\* C16, as the specification states it: right after a successful
\* registration the new artwork's owner is its recorded creator and its
\* licensed flag is false.
C16_AsClaimed ==
    /\ (InDrm /\ drm.currentTokenId < MaxTokens) =>
          \A s \in Registrants \cup Holders, u \in MetadataURIs, p \in Royalties :
             LET r == Tx(drm, eth, registerArtwork(drm, eth, s, u, p))
             IN r.ok =>
                  /\ r.drm.owners[r.ret] = r.drm.artworks[r.ret].creator
                  /\ r.drm.artworks[r.ret].creator = s
                  /\ ~r.drm.artworks[r.ret].isLicensed
    /\ (InRegistry /\ reg.tokenCount < MaxTokens) =>
          \A s \in {"alice", "bob"}, o \in {"alice", "bob", "escrow", NoAddr},
             u \in RegistryURIs, p \in RegistryRoyalties :
             LET r == TxS(reg, lic, dist,
                          RegistryRegisterArtwork(reg, lic, dist, s, o, u, p))
             IN r.ok =>
                  /\ r.reg.owners[r.ret] = r.reg.artworks[r.ret].creator
                  /\ r.reg.artworks[r.ret].creator = s
                  /\ ~r.reg.artworks[r.ret].isLicensed

C18_AsClaimed ==
    /\ scope = "ArtDRM.licensing" =>
          \A t \in TokenIds, l \in Licensees :
             LET s == drm.owners[t]
             IN (Exists(drm.owners, t) /\ eth[s] >= LICENSE_FEE /\ l \in {NoAddr, s}) =>
                   LET r == Tx(drm, eth, grantLicense(drm, eth, s, LICENSE_FEE, t, l, 30,
                                                      "QmTerms", "PERSONAL", now))
                   IN /\ ~r.ok
                      /\ r.err = "Invalid licensee address"
                      /\ r.drm.tokenLicenses = drm.tokenLicenses
    /\ scope = "Registry.licensing" =>
          \A t \in TokenIds, l \in Licensees :
             LET s == reg.owners[t]
             IN (Exists(reg.owners, t) /\ l \in {NoAddr, s}) =>
                   LET r == TxS(reg, lic, dist,
                                LicensingGrantLicense(reg, lic, dist, s, 0, t, l, 30,
                                                      "QmTerms", "PERSONAL", now))
                   IN /\ ~r.ok
                      /\ r.lic.tokenLicenses = lic.tokenLicenses
    /\ \A t \in TokenIds :
          /\ \A i \in 1 .. Len(drm.tokenLicenses[t]) :
                drm.tokenLicenses[t][i].licensee # NoAddr
          /\ \A i \in 1 .. Len(lic.tokenLicenses[t]) :
                lic.tokenLicenses[t][i].licensee # NoAddr

\* The record of a licensee granted last on a licence list, 0 when the
\* licensee has none.
LastOf(licenses, licensee) ==
    LET S == {i \in 1 .. Len(licenses) : licenses[i].licensee = licensee}
    IN IF S = {} THEN 0 ELSE CHOOSE i \in S : \A j \in S : j <= i

\* C19: on a registered artwork, a grant or a revocation by anyone but the
\* current owner fails with the not-owner error and changes nothing, whatever
\* its other arguments, so the creator loses the right when the token is
\* transferred; the current owner's revocation of a licensee's active licence
\* succeeds and deactivates it, whoever owned the token when it was granted
\* (in the split deployment, while the registry names ArtworkLicensing as its
\* licensing contract, as the deployment script sets it).
C19_CurrentOwnerAuthority ==
    /\ scope = "ArtDRM.licensing" =>
          \A t \in TokenIds :
             Exists(drm.owners, t) =>
                /\ \A s \in Accounts \ {drm.owners[t]} :
                      /\ \A o \in Offers :
                            eth[s] >= o.fee =>
                               LET r == Tx(drm, eth, grantLicense(drm, eth, s, o.fee, t, o.licensee,
                                                                  o.days, "QmTerms", o.type, now))
                               IN /\ ~r.ok
                                  /\ r.err = "Only owner can grant license"
                                  /\ r.drm = drm
                                  /\ r.eth = eth
                      /\ \A l \in Licensees :
                            LET r == Tx(drm, eth, revokeLicense(drm, eth, s, t, l, now))
                            IN /\ ~r.ok
                               /\ r.err = "Only owner can revoke license"
                               /\ r.drm = drm
                /\ \A l \in Licensees :
                      LET i == FirstActiveOf(drm.tokenLicenses[t], l)
                          r == Tx(drm, eth, revokeLicense(drm, eth, drm.owners[t], t, l, now))
                      IN i # 0 =>
                            /\ r.ok
                            /\ ~r.drm.tokenLicenses[t][i].isActive
    /\ scope = "Registry.licensing" =>
          \A t \in TokenIds :
             Exists(reg.owners, t) =>
                /\ \A s \in Accounts \ {reg.owners[t]} :
                      /\ \A o \in Offers :
                            LET r == TxS(reg, lic, dist,
                                         LicensingGrantLicense(reg, lic, dist, s, 0, t, o.licensee,
                                                               o.days, "QmTerms", o.type, now))
                            IN /\ ~r.ok
                               /\ r.err = "Not owner"
                               /\ r.lic = lic
                               /\ r.reg = reg
                      /\ \A l \in Licensees :
                            LET r == TxS(reg, lic, dist,
                                         LicensingRevokeLicense(reg, lic, dist, s, 0, t, l))
                            IN /\ ~r.ok
                               /\ r.err = "Not owner"
                               /\ r.lic = lic
                /\ \A l \in Licensees :
                      LET i == LastOf(lic.tokenLicenses[t], l)
                          r == TxS(reg, lic, dist,
                                   LicensingRevokeLicense(reg, lic, dist, reg.owners[t], 0, t, l))
                      IN (/\ i # 0
                          /\ lic.tokenLicenses[t][i].isActive
                          /\ reg.licensingContract = LICENSING) =>
                            /\ r.ok
                            /\ ~r.lic.tokenLicenses[t][i].isActive

\* A new owner has revoked a licence on a token it did not create.
C19_Witness ==
    /\ last.op = "revokeLicense"
    /\ last.ok
    /\ \E t \in TokenIds :
          /\ Exists(drm.owners, t)
          /\ drm.owners[t] # drm.artworks[t].creator
          /\ Len(drm.tokenLicenses[t]) = 1
          /\ ~drm.tokenLicenses[t][1].isActive

\* The record a grant with the given arguments has to append.
Granted(rec, o, t) ==
    /\ rec.licensee = o.licensee
    /\ rec.licenseType = o.type
    /\ rec.termsHash = "QmTerms"
    /\ rec.startDate = t
    /\ rec.endDate = t + o.days * 86400
    /\ rec.endDate > rec.startDate
    /\ rec.isActive

\* C20: as the specification states it.  A grant by the owner with a
\* positive duration succeeds whatever licences the artwork already has,
\* appends exactly one record with the given licensee, type and terms,
\* startDate = now, endDate = now + days * 86400, active, and the amount
\* supplied as feePaid, sets the artwork's licensed flag, and returns an id
\* that no earlier grant returned.
C20_AsClaimed ==
    /\ scope = "ArtDRM.licensing" =>
          \A t \in TokenIds, o \in Offers :
             LET s == drm.owners[t]
             IN (/\ Exists(drm.owners, t)
                 /\ o.days > 0 /\ o.licensee # NoAddr /\ o.fee >= LICENSE_FEE
                 /\ eth[s] >= o.fee /\ s \in AcceptsEth) =>
                   LET r == Tx(drm, eth, grantLicense(drm, eth, s, o.fee, t, o.licensee,
                                                      o.days, "QmTerms", o.type, now))
                       old == drm.tokenLicenses[t]
                       new == r.drm.tokenLicenses[t]
                   IN /\ r.ok
                      /\ Len(new) = Len(old) + 1
                      /\ SubSeq(new, 1, Len(old)) = old
                      /\ \A u \in TokenIds \ {t} : r.drm.tokenLicenses[u] = drm.tokenLicenses[u]
                      /\ Granted(new[Len(new)], o, now)
                      /\ new[Len(new)].feePaid = o.fee
                      /\ r.drm.artworks[t].isLicensed
                      /\ r.ret = drm.licenseCounter
                      /\ r.drm.licenseCounter = drm.licenseCounter + 1
    /\ scope = "Registry.licensing" =>
          \A t \in TokenIds, o \in Offers :
             LET s == reg.owners[t]
             IN (/\ Exists(reg.owners, t)
                 /\ o.days > 0 /\ o.licensee # NoAddr
                 /\ reg.licensingContract = LICENSING) =>
                   LET r == TxS(reg, lic, dist,
                                LicensingGrantLicense(reg, lic, dist, s, 0, t, o.licensee,
                                                      o.days, "QmTerms", o.type, now))
                       old == lic.tokenLicenses[t]
                       new == r.lic.tokenLicenses[t]
                   IN /\ r.ok
                      /\ Len(new) = Len(old) + 1
                      /\ SubSeq(new, 1, Len(old)) = old
                      /\ Granted(new[Len(new)], o, now)
                      /\ r.reg.artworks[t].isLicensed
                      /\ "feePaid" \in DOMAIN new[Len(new)]
                      /\ r.ret # <<>>

C22_AsClaimed ==
    /\ scope = "ArtDRM.licensing" =>
          \A t \in TokenIds, l \in Licensees :
             (Exists(drm.owners, t) /\ ActiveOf(drm.tokenLicenses[t], l) = {}) =>
                LET r == Tx(drm, eth, revokeLicense(drm, eth, drm.owners[t], t, l, now))
                IN /\ ~r.ok
                   /\ r.err = "Active license not found"
                   /\ r.drm = drm
    /\ scope = "Registry.licensing" =>
          \A t \in TokenIds, l \in Licensees :
             (Exists(reg.owners, t) /\ ActiveOf(lic.tokenLicenses[t], l) = {}) =>
                LET r == TxS(reg, lic, dist,
                             LicensingRevokeLicense(reg, lic, dist, reg.owners[t], 0, t, l))
                IN /\ ~r.ok
                   /\ r.lic = lic
                   /\ r.reg = reg

\* C23: as the specification states it.  After a successful handleSale
\* with msg.value >= salePrice the contract holds what it held before: what
\* the payer sent and the contract did not pass on to the creator, the
\* owner or the platform is back with the payer.
C23_AsClaimed ==
    scope = "ArtDRM.settlement" =>
       \A t \in TokenIds, p \in Prices, x \in {0, 1} :
          eth["bob"] >= p + x =>
             LET r == Tx(drm, eth, handleSale(drm, eth, "bob", p + x, t, p))
             IN r.ok => r.eth[THIS] = eth[THIS]

\* C24: as the specification states it.  A successful registerArtwork,
\* grantLicense, revokeLicense or handleSale has logged exactly one event,
\* a primary sale included, and a failed one has logged none.
C24_AsClaimed ==
    last.op \in {"registerArtwork", "grantLicense", "revokeLicense", "handleSale"} =>
       /\ last.ok => Len(last.events) = 1
       /\ ~last.ok => Len(last.events) = 0

\* C25: as the specification states it.  After every successful revoke the
\* artwork's stored flag is what a scan of its licence records for an
\* active one with now <= endDate gives.
C25_AsClaimed ==
    /\ scope = "ArtDRM.licensing" =>
          \A t \in TokenIds, l \in Licensees :
             Exists(drm.owners, t) =>
                LET r == Tx(drm, eth, revokeLicense(drm, eth, drm.owners[t], t, l, now))
                IN r.ok => (r.drm.artworks[t].isLicensed
                               <=> HasActiveLicense(r.drm.tokenLicenses[t], now))
    /\ scope = "Registry.licensing" =>
          \A t \in TokenIds, l \in Licensees :
             (Exists(reg.owners, t) /\ l # NoAddr /\ ActiveOf(lic.tokenLicenses[t], l) # {}) =>
                LET r == TxS(reg, lic, dist,
                             LicensingRevokeLicense(reg, lic, dist, reg.owners[t], 0, t, l))
                IN r.ok => (r.reg.artworks[t].isLicensed
                               <=> HasActiveLicense(r.lic.tokenLicenses[t], now))

\* C26: getActiveLicenses returns the records of the artwork that are
\* active with block.timestamp <= endDate, each once and in the order of
\* their indices, and isLicenseValid is true for a licensee exactly when
\* that result holds a record of the licensee.
C26_ActiveLicenseView ==
    scope = "ArtDRM.licensing" =>
       \A t \in TokenIds :
          Exists(drm.owners, t) =>
             LET all == drm.tokenLicenses[t]
                 idx == {i \in 1 .. Len(all) : all[i].isActive /\ now <= all[i].endDate}
                 Nth(k) == CHOOSE i \in idx : Cardinality({j \in idx : j <= i}) = k
                 r == Tx(drm, eth, getActiveLicenses(drm, eth, t, now))
             IN /\ r.ok
                /\ r.drm = drm
                /\ Len(r.ret) = Cardinality(idx)
                /\ \A k \in 1 .. Len(r.ret) : r.ret[k] = all[Nth(k)]
                /\ \A l \in Licensees :
                      LET v == Tx(drm, eth, isLicenseValid(drm, eth, t, l, now))
                      IN /\ v.ok
                         /\ v.ret <=> \E k \in 1 .. Len(r.ret) : r.ret[k].licensee = l

\* The view has left out a revoked first record and returned the second.
C26_Witness ==
    /\ last.op = "getActiveLicenses"
    /\ last.ok
    /\ Len(last.ret) = 1
    /\ \E t \in TokenIds :
          /\ Len(drm.tokenLicenses[t]) = 2
          /\ ~drm.tokenLicenses[t][1].isActive
          /\ last.ret[1] = drm.tokenLicenses[t][2]
          /\ drm.tokenLicenses[t][2] # drm.tokenLicenses[t][1]

\* The indices at which two licence lists of one length differ in isActive.
Flipped(old, new) ==
    {i \in 1 .. Len(old) : old[i].isActive # new[i].isActive}

\* C27: as the specification states it.  A successful revoke changes the
\* active flag of exactly one record, and that record is one of the named
\* artwork and the named licensee.
C27_AsClaimed ==
    /\ scope = "ArtDRM.licensing" =>
          \A t \in TokenIds, l \in Licensees :
             Exists(drm.owners, t) =>
                LET r == Tx(drm, eth, revokeLicense(drm, eth, drm.owners[t], t, l, now))
                    old == drm.tokenLicenses[t]
                    new == r.drm.tokenLicenses[t]
                IN r.ok =>
                      /\ Len(new) = Len(old)
                      /\ Cardinality(Flipped(old, new)) = 1
                      /\ \A i \in Flipped(old, new) : old[i].licensee = l /\ old[i].tokenId = t
                      /\ \A u \in TokenIds \ {t} : r.drm.tokenLicenses[u] = drm.tokenLicenses[u]
    /\ scope = "Registry.licensing" =>
          \A t \in TokenIds, l \in Licensees :
             Exists(reg.owners, t) =>
                LET r == TxS(reg, lic, dist,
                             LicensingRevokeLicense(reg, lic, dist, reg.owners[t], 0, t, l))
                    old == lic.tokenLicenses[t]
                    new == r.lic.tokenLicenses[t]
                IN r.ok =>
                      /\ Len(new) = Len(old)
                      /\ Cardinality(Flipped(old, new)) = 1
                      /\ \A i \in Flipped(old, new) : old[i].licensee = l /\ old[i].tokenId = t
                      /\ \A u \in TokenIds \ {t} : r.lic.tokenLicenses[u] = lic.tokenLicenses[u]

\* C28: as the specification states it.  A step changes an artwork's stored
\* licensed flag only when it is a grant or a revoke of the licensing
\* engine: no direct call of the registry, registration or sale does.
C28_AsClaimed ==
    [][\A t \in TokenIds :
          /\ (reg'.artworks[t].isLicensed # reg.artworks[t].isLicensed) =>
                last'.op \in {"Licensing.grantLicense", "Licensing.revokeLicense"}
          /\ (drm'.artworks[t].isLicensed # drm.artworks[t].isLicensed) =>
                last'.op \in {"grantLicense", "revokeLicense"}]_vars

\* The positions of the ArtworkRegistered events in a log.
Registrations(events) ==
    {k \in 1 .. Len(events) : events[k].name = "ArtworkRegistered"}

\* C29: when the recipient's callback registers another artwork while a
\* registration is minting, the registrations that complete have different
\* ids, each artwork's stored creator, metadata reference and royalty are
\* those of its own registration, and the id counter equals the number of
\* artworks that exist.
C29_ReentrantRegistration ==
    /\ InDrm =>
          /\ drm.currentTokenId = Cardinality({t \in TokenIds : Exists(drm.owners, t)})
          /\ (last.op = "registerArtwork/onERC721Received" /\ last.ok) =>
                /\ \A j, k \in Registrations(last.events) :
                      j # k => last.events[j].tokenId # last.events[k].tokenId
                /\ \A k \in Registrations(last.events) :
                      LET ev == last.events[k]
                      IN /\ drm.artworks[ev.tokenId].creator = ev.creator
                         /\ drm.artworks[ev.tokenId].metadataURI = ev.metadataURI
                         /\ drm.artworks[ev.tokenId].royaltyPercentage = ev.royaltyPercentage
                         /\ drm.tokenURIs[ev.tokenId] = ev.metadataURI
    /\ InRegistry =>
          /\ reg.tokenCount = Cardinality({t \in TokenIds : Exists(reg.owners, t)})
          /\ (last.op = "Registry.registerArtwork/onERC721Received" /\ last.ok) =>
                /\ \A j, k \in Registrations(last.events) :
                      j # k => last.events[j].tokenId # last.events[k].tokenId
                /\ \A k \in Registrations(last.events) :
                      LET ev == last.events[k]
                      IN /\ reg.artworks[ev.tokenId].creator = ev.creator
                         /\ reg.artworks[ev.tokenId].metadataURI = ev.metadataURI
                         /\ reg.artworks[ev.tokenId].royaltyPercentage = ev.royaltyPercentage
                         /\ reg.tokenURIs[ev.tokenId] = ev.metadataURI

\* Both the outer and the nested registration have completed.
C29_Witness ==
    /\ last.op = "registerArtwork/onERC721Received"
    /\ last.ok
    /\ Cardinality(Registrations(last.events)) = 2
    /\ drm.currentTokenId = 2
    /\ drm.artworks[0].metadataURI = "ipfs://a"
    /\ drm.artworks[1].metadataURI = "ipfs://nested"

\* The sum of f(i) over the indices 1 .. n.
RECURSIVE SumTo(_, _)
SumTo(f, n) == IF n = 0 THEN 0 ELSE f[n] + SumTo(f, n - 1)

\* C30: as the specification states it.  For every contract the
\* constructor accepts and every balance B it holds, distribute pays each
\* entry of the payee list floor(B * shares[payee] / totalShares), pays out
\* no more than B in total, totalShares is the sum over the payee list of the
\* share each entry is paid on, and less than one unit per payee is left.
C30_AsClaimed ==
    scope = "PaymentSplitter" =>
       LET sp == splitter
           B == sp.balance
           n == Len(sp.payees)
           due == [i \in 1 .. n |-> (B * sp.shares[sp.payees[i]]) \div sp.totalShares]
           paidOn == [i \in 1 .. n |-> sp.shares[sp.payees[i]]]
           r == TxP(sp, distribute(sp))
       IN /\ sp.totalShares = SumTo(paidOn, n)
          /\ SumTo(due, n) <= B
          /\ r.ok
          /\ B - r.sp.balance = SumTo(due, n)
          /\ \A a \in Accounts :
                r.sp.received[a] - sp.received[a]
                   = SumTo([i \in 1 .. n |-> IF sp.payees[i] = a THEN due[i] ELSE 0], n)
          /\ n > 0 => r.sp.balance < n

====
